---- MODULE Spec2Model ----
(***************************************************************************)
(* ZK Battleship client: the state synchronizer (useGameState), the        *)
(* screen derivation of App, the PlayPhase turn protocol (fire and the     *)
(* automatic respond), the remote call pipeline (invoke) and the pure turn *)
(* derivation.                                                             *)
(*                                                                         *)
(* Specifications of the module:                                           *)
(*   Spec        PlayPhase and App against the remote contract; polls of   *)
(*               the synchronizer do not overlap here                      *)
(*   SpecSync    the synchronizer alone, with overlapping polls            *)
(*   SpecInvoke  one pipeline invocation, stage by stage                   *)
(*   SpecInvokeLive  SpecInvoke with every awaited call settling          *)
(*   SpecTurn    the turn derivation over every GameState and identity     *)
(***************************************************************************)
EXTENDS Integers, Sequences, FiniteSets, TLC

\* ---------------------------------------------------------------- bounds
\* shots and selections target the first NumCells cells of CellList (the
\* board of the source has 25 cells)
NumCells == 2
\* the contract accepts MaxShots fire_shot transactions in all
MaxShots == 2
\* at most MaxPolls calls of fetchGameState are outstanding at once
MaxPolls == 2
\* at most MaxOps asynchronous handler invocations are outstanding at once
MaxOps == 2
\* SpecTurn draws the pending-shot coordinates from 0..MaxCoord and NO_SHOT
MaxCoord == 1
\* SpecPoller: the clock advances in StepsPerInterval steps per poll
\* interval, MaxClockSteps steps in all; at most MaxIssued polls are issued
StepsPerInterval == 3
MaxClockSteps == 7
MaxIssued == 4
\* SpecTurnTimer: the turn key prop takes the values 1..NumKeys
NumKeys == 2
\* SpecBoard: side of the board (BOARD_SIZE, 5 in the source)
BoardSide == 4

\* ------------------------------------------------------------- constants
\* u32::MAX (4294967295) in the source; it only serves as a sentinel that
\* differs from every coordinate, and is kept inside TLC's integer range
NO_SHOT == -1
\* invoke: number of confirmation attempts, and the delay before each
MAX_ATTEMPTS == 40
ATTEMPT_DELAY_MS == 1500
\* useGameState: period of the poll timer
POLL_INTERVAL_MS == 3000
\* useTurnTimer: seconds of a turn
TURN_SECONDS == 300
\* board.ts: ships to place
TOTAL_SHIPS == 3
SALT_BYTES == 32

CellList == <<[x |-> 0, y |-> 0], [x |-> 1, y |-> 0], [x |-> 0, y |-> 1],
              [x |-> 1, y |-> 1], [x |-> 2, y |-> 1], [x |-> 1, y |-> 2]>>
Cells == {CellList[k] : k \in 1..NumCells}
Me == "GME"
Opp == "GOPP"
\* null / empty address (stellar.address === null, svAddress fallback '')
NoAddr == ""
\* null snapshot / null secret; a present value v is <<v>>
Null == <<>>
Some(v) == <<v>>
\* null error message
NoError == ""

RemoveAt(s, i) == [j \in 1..(Len(s) - 1) |-> IF j < i THEN s[j] ELSE s[j + 1]]

VARIABLES
  \* ---- remote contract (authoritative GameState)
  remote,
  \* ---- wallet (useWallet)
  address,
  \* ---- synchronizer (useGameState)
  gameState, error, intervalRef, polls,
  \* ---- localStorage entry of (CONTRACT_ID, Me)
  secret,
  \* ---- PlayPhase component state
  myShots, receivedShots, selectedCell, actionError, txPending, generating,
  \* ---- asynchronous handler invocations awaiting a remote call or a proof
  ops,
  \* ---- one invocation of the pipeline (invoke): position, method, loop
  \* counter i, status queries made, time slept, last status, outcome
  ipc, imethod, iattempt, iqueries, ielapsed, ilast, ioutcome,
  \* ---- the flags PlayPhase derives from its props when it renders
  turnFlags,
  \* ---- useGameState's interval timer against a clock
  poller,
  \* ---- one instance of useTurnTimer with the props it was rendered with
  turnTimer,
  \* ---- CommitPhase's board under toggleCell
  placement,
  \* ---- the browser's localStorage and the last loadPlayerSecret result
  storage,
  \* ---- the secret in use and the arguments of the remote calls made
  wire,
  \* ---- the call of a function of utils/ under study: input and result
  calc

syncVars == <<gameState, error, intervalRef, polls>>
playVars == <<myShots, receivedShots, selectedCell, actionError, txPending,
              generating>>
clientVars == <<remote, address, syncVars, secret, playVars, ops>>
invokeVars == <<ipc, imethod, iattempt, iqueries, ielapsed, ilast, ioutcome>>
auxVars == <<poller, turnTimer, placement, storage, wire, calc>>
vars == <<clientVars, invokeVars, turnFlags, auxVars>>

\* =========================================================================
\* Remote contract (the Soroban contract; its source is not in the client)
\* =========================================================================

RemotePlaying(p1, p2) ==
  [phase |-> "Playing", player1 |-> p1, player2 |-> p2, turn |-> p1,
   pending_shot_x |-> NO_SHOT, pending_shot_y |-> NO_SHOT,
   shots_fired_p1 |-> 0, shots_fired_p2 |-> 0,
   board_hash_p1 |-> "0xh1", board_hash_p2 |-> "0xh2"]

OtherPlayer(r, a) == IF a = r.player1 THEN r.player2 ELSE r.player1

ShotsFiredBy(r, a) == IF a = r.player1 THEN r.shots_fired_p1 ELSE r.shots_fired_p2

CanFire(r, a) ==
  /\ r.phase = "Playing"
  /\ r.turn = a
  /\ r.pending_shot_x = NO_SHOT
  /\ r.shots_fired_p1 + r.shots_fired_p2 < MaxShots

\* the shot becomes pending and the defender is asked to respond
fire_shot(r, a, x, y) ==
  [r EXCEPT !.pending_shot_x = x, !.pending_shot_y = y,
            !.turn = OtherPlayer(r, a),
            !.shots_fired_p1 = IF a = r.player1 THEN @ + 1 ELSE @,
            !.shots_fired_p2 = IF a = r.player2 THEN @ + 1 ELSE @]

CanRespond(r, a, x, y) ==
  /\ r.phase = "Playing"
  /\ r.turn = a
  /\ x # NO_SHOT
  /\ r.pending_shot_x = x
  /\ r.pending_shot_y = y

\* the pending shot is cleared; the defender fires next
submit_response(r, a) ==
  [r EXCEPT !.pending_shot_x = NO_SHOT, !.pending_shot_y = NO_SHOT]

\* =========================================================================
\* Pure client functions
\* =========================================================================

\* contract.ts fetchGameState: every failure is caught and becomes null; the
\* function never raises.  outcome is what the remote call did, read is the
\* snapshot the get_state simulation returned, if it returned.
fetchGameState(outcome, read) ==
  IF outcome = "unreachable"
    THEN [threw |-> FALSE, val |-> Null]
    ELSE [threw |-> FALSE, val |-> read]

\* App.tsx deriveScreen
deriveScreen(gs, addr) ==
  IF gs = Null \/ addr = NoAddr THEN "lobby"
  ELSE LET g == gs[1] IN
    IF ~(g.player1 = addr \/ g.player2 = addr) THEN "lobby"
    ELSE IF g.phase = "Finished" THEN "gameover"
    ELSE IF g.phase = "Playing" THEN "play"
    ELSE IF g.phase = "Commit" THEN "commit"
    ELSE "lobby"

\* PlayPhase turn derivation
isMyTurn(g, playerAddress) == g.turn = playerAddress
\* variant: the test reads the y field
hasPendingShot_Y(g) == g.pending_shot_y # NO_SHOT

hasPendingShot(g) == g.pending_shot_x # NO_SHOT
needToFire(g, playerAddress) == isMyTurn(g, playerAddress) /\ ~hasPendingShot(g)
needToRespond(g, playerAddress) == isMyTurn(g, playerAddress) /\ hasPendingShot(g)

\* the secret CommitPhase saved: the ship cells of the board, and the salt
StoredSecret == [board |-> {CellList[1]}, salt |-> "salt"]

\* the localStorage item under the player's key: absent (Null), the JSON text
\* savePlayerSecret wrote, or text JSON.parse rejects
SavedItem == Some([wellFormed |-> TRUE, parsed |-> StoredSecret])
CorruptItem == Some([wellFormed |-> FALSE, parsed |-> [board |-> {}, salt |-> ""]])

\* board.ts loadPlayerSecret: null when nothing is stored under the key or
\* the stored text does not parse
loadPlayerSecret(raw) ==
  IF raw = Null THEN Null
  ELSE IF raw[1].wellFormed THEN Some(raw[1].parsed)
  ELSE Null

\* the proof engine's answer for a shot at (x, y) on board
IsHit(board, x, y) == [x |-> x, y |-> y] \in board

\* =========================================================================
\* Rendering: mounting and unmounting of PlayPhase, and the auto-respond
\* effect React runs after a render in which its dependencies changed
\* =========================================================================

NewOp(kind, x, y, stage, sec) ==
  [kind |-> kind, x |-> x, y |-> y, stage |-> stage, live |-> TRUE,
   sec |-> sec, isHit |-> FALSE, boardHash |-> ""]

\* the local player's own committed hash, as the respond action picks it
OwnHash(g, playerAddress) ==
  IF g.player1 = playerAddress THEN g.board_hash_p1 ELSE g.board_hash_p2

\* invocations started by a component that has been unmounted keep running,
\* but their state updates no longer reach any component
Orphaned(os) == [i \in DOMAIN os |-> [os[i] EXCEPT !.live = FALSE]]

\* the dependency list of the auto-respond effect
RespondDeps(g, playerAddress) ==
  <<needToRespond(g, playerAddress), g.pending_shot_x, g.pending_shot_y>>

\* variant: txPending is raised before the secret is looked up
AutoRespond_PendingFirst(g, playerAddress, txP, gen, err, os) ==
  IF ~needToRespond(g, playerAddress) \/ txP \/ gen
    THEN /\ txPending' = txP
         /\ generating' = gen
         /\ actionError' = err
         /\ ops' = os
    ELSE LET sec == loadPlayerSecret(secret) IN
      IF sec = Null
        THEN /\ actionError' = "Board not found in localStorage"
             /\ txPending' = TRUE
             /\ generating' = gen
             /\ ops' = os
        ELSE /\ Len(os) < MaxOps
             /\ txPending' = TRUE
             /\ actionError' = NoError
             /\ generating' = TRUE
             /\ ops' = Append(os, [NewOp("respond", g.pending_shot_x,
                                         g.pending_shot_y, "proving", sec)
                                     EXCEPT !.boardHash =
                                              OwnHash(g, playerAddress)])

\* PlayPhase auto-respond effect, run after a render that shows snapshot g
\* with the component state (txP, gen, err) and the invocations os
AutoRespond(g, playerAddress, txP, gen, err, os) ==
  IF ~needToRespond(g, playerAddress) \/ txP \/ gen
    THEN /\ txPending' = txP
         /\ generating' = gen
         /\ actionError' = err
         /\ ops' = os
    ELSE LET sec == loadPlayerSecret(secret) IN
      IF sec = Null
        THEN /\ actionError' = "Board not found in localStorage"
             /\ txPending' = txP
             /\ generating' = gen
             /\ ops' = os
        ELSE /\ Len(os) < MaxOps
             /\ txPending' = TRUE
             /\ actionError' = NoError
             /\ generating' = TRUE
             /\ ops' = Append(os, [NewOp("respond", g.pending_shot_x,
                                         g.pending_shot_y, "proving", sec)
                                     EXCEPT !.boardHash =
                                              OwnHash(g, playerAddress)])

\* the render that follows a change of the snapshot or of the wallet address
Render(gsNew, addrNew) ==
  LET was == deriveScreen(gameState, address)
      now == deriveScreen(gsNew, addrNew)
  IN
  IF now = "play" /\ was # "play"
    THEN \* PlayPhase mounts with fresh state; its effects run once
         /\ myShots' = <<>>
         /\ receivedShots' = <<>>
         /\ selectedCell' = Null
         /\ AutoRespond(gsNew[1], addrNew, FALSE, FALSE, NoError, ops)
  ELSE IF now = "play"
    THEN /\ UNCHANGED <<myShots, receivedShots, selectedCell>>
         /\ IF RespondDeps(gsNew[1], addrNew) # RespondDeps(gameState[1], address)
              THEN AutoRespond(gsNew[1], addrNew, txPending, generating,
                               actionError, ops)
              ELSE UNCHANGED <<txPending, generating, actionError, ops>>
  ELSE IF was = "play"
    THEN \* PlayPhase unmounts: its state is gone
         /\ myShots' = <<>>
         /\ receivedShots' = <<>>
         /\ selectedCell' = Null
         /\ actionError' = NoError
         /\ txPending' = FALSE
         /\ generating' = FALSE
         /\ ops' = Orphaned(ops)
  ELSE /\ UNCHANGED <<playVars, ops>>

\* =========================================================================
\* Wallet (useWallet)
\* =========================================================================

walletConnect ==
  /\ address = NoAddr
  /\ address' = Me
  /\ Render(gameState, Me)
  /\ UNCHANGED <<remote, syncVars, secret>>

walletDisconnect ==
  /\ address # NoAddr
  /\ address' = NoAddr
  /\ Render(gameState, NoAddr)
  /\ UNCHANGED <<remote, syncVars, secret>>

\* =========================================================================
\* State synchronizer (useGameState)
\* =========================================================================

\* a call of fetchGameState that has not returned yet
NewPoll == [res |-> "sent", val |-> Null]

\* refresh, up to its await of fetchGameState
refresh == polls' = Append(polls, NewPoll)

startPolling ==
  /\ ~intervalRef
  /\ Len(polls) < MaxPolls
  /\ refresh
  /\ intervalRef' = TRUE
  /\ UNCHANGED <<remote, address, gameState, error, secret, playVars, ops>>

stopPolling ==
  /\ intervalRef
  /\ intervalRef' = FALSE
  /\ UNCHANGED <<remote, address, gameState, error, polls, secret, playVars, ops>>

\* setInterval(refresh, POLL_INTERVAL_MS) fires
timerTick ==
  /\ intervalRef
  /\ Len(polls) < MaxPolls
  /\ refresh
  /\ UNCHANGED <<remote, address, gameState, error, intervalRef, secret,
                 playVars, ops>>

\* an on-demand refresh while the lobby is shown: GameLobby's own
\* setInterval(onRefresh, 4000), or handleJoin's await refresh()
refreshNow ==
  /\ deriveScreen(gameState, address) = "lobby"
  /\ Len(polls) < MaxPolls
  /\ refresh
  /\ UNCHANGED <<remote, address, gameState, error, intervalRef, secret,
                 playVars, ops>>

\* the remote platform answers the get_state simulation, or cannot be reached
pollAnswer(i) ==
  /\ polls[i].res = "sent"
  /\ \E outcome \in {"ok", "unreachable"} :
       polls' = [polls EXCEPT ![i].res = outcome,
                              ![i].val = IF outcome = "ok" THEN Some(remote) ELSE Null]
  /\ UNCHANGED <<remote, address, gameState, error, intervalRef, secret,
                 playVars, ops>>

\* refresh, from the return of fetchGameState on
refreshSettle(i) ==
  /\ polls[i].res # "sent"
  /\ LET r == fetchGameState(polls[i].res, polls[i].val) IN
       IF r.threw
         THEN /\ error' = "fetch failed"
              /\ gameState' = gameState
         ELSE /\ gameState' = r.val
              /\ error' = NoError
  /\ polls' = RemoveAt(polls, i)
  /\ UNCHANGED <<remote, address, intervalRef, secret>>

\* =========================================================================
\* PlayPhase: selection, handleFire, the respond continuation
\* =========================================================================

ShotAt(x, y) == [x |-> x, y |-> y, isHit |-> FALSE]
HasShot(log, row, col) == \E k \in DOMAIN log : log[k].y = row /\ log[k].x = col

\* variant: a cell of the log can be selected
handleCellSelect_AnyCell(row, col) ==
  /\ deriveScreen(gameState, address) = "play"
  /\ needToFire(gameState[1], address) /\ ~txPending
  /\ selectedCell # Some([row |-> row, col |-> col])
  /\ selectedCell' = Some([row |-> row, col |-> col])
  /\ UNCHANGED <<remote, address, syncVars, secret, myShots, receivedShots,
                 actionError, txPending, generating, ops>>

\* Board click on the attack grid, then handleCellSelect
handleCellSelect(row, col) ==
  /\ deriveScreen(gameState, address) = "play"
  /\ needToFire(gameState[1], address) /\ ~txPending
  /\ ~HasShot(myShots, row, col)
  /\ selectedCell # Some([row |-> row, col |-> col])
  /\ selectedCell' = Some([row |-> row, col |-> col])
  /\ UNCHANGED <<remote, address, syncVars, secret, myShots, receivedShots,
                 actionError, txPending, generating, ops>>

\* handleFire up to its await of fireShot
handleFire ==
  /\ deriveScreen(gameState, address) = "play"
  /\ needToFire(gameState[1], address)
  /\ ~(selectedCell = Null \/ txPending)
  /\ Len(ops) < MaxOps
  /\ txPending' = TRUE
  /\ actionError' = NoError
  /\ ops' = Append(ops, NewOp("fire", selectedCell[1].col, selectedCell[1].row,
                              "invoking", Null))
  /\ UNCHANGED <<remote, address, syncVars, secret, myShots, receivedShots,
                 selectedCell, generating>>

\* variant: the selection survives a successful shot
fireOk_KeepsSelection(i) ==
  /\ ops[i].kind = "fire" /\ ops[i].stage = "landed"
  /\ IF ops[i].live
       THEN /\ myShots' = Append(myShots, ShotAt(ops[i].x, ops[i].y))
            /\ txPending' = FALSE
            /\ UNCHANGED selectedCell
       ELSE UNCHANGED <<myShots, selectedCell, txPending>>
  /\ ops' = RemoveAt(ops, i)
  /\ UNCHANGED <<remote, address, syncVars, secret, receivedShots, actionError,
                 generating>>

\* fireShot returned: append to myShots, clear the selection; finally
fireOk(i) ==
  /\ ops[i].kind = "fire" /\ ops[i].stage = "landed"
  /\ IF ops[i].live
       THEN /\ myShots' = Append(myShots, ShotAt(ops[i].x, ops[i].y))
            /\ selectedCell' = Null
            /\ txPending' = FALSE
       ELSE UNCHANGED <<myShots, selectedCell, txPending>>
  /\ ops' = RemoveAt(ops, i)
  /\ UNCHANGED <<remote, address, syncVars, secret, receivedShots, actionError,
                 generating>>

\* fireShot raised: catch and finally
fireFail(i) ==
  /\ ops[i].kind = "fire" /\ ops[i].stage = "invoking"
  /\ IF ops[i].live
       THEN /\ actionError' = "fire failed"
            /\ txPending' = FALSE
       ELSE UNCHANGED <<actionError, txPending>>
  /\ ops' = RemoveAt(ops, i)
  /\ UNCHANGED <<remote, address, syncVars, secret, myShots, receivedShots,
                 selectedCell, generating>>

\* generateProof returned {proof, isHit}: await submitResponse
proofDone(i) ==
  /\ ops[i].kind = "respond" /\ ops[i].stage = "proving"
  /\ ops' = [ops EXCEPT ![i].stage = "invoking",
                         ![i].isHit = IsHit(ops[i].sec[1].board, ops[i].x, ops[i].y)]
  /\ generating' = IF ops[i].live THEN FALSE ELSE generating
  /\ UNCHANGED <<remote, address, syncVars, secret, myShots, receivedShots,
                 selectedCell, actionError, txPending>>

\* submitResponse returned: append to receivedShots; finally
respondOk(i) ==
  /\ ops[i].kind = "respond" /\ ops[i].stage = "landed"
  /\ IF ops[i].live
       THEN /\ receivedShots' = Append(receivedShots,
                 [x |-> ops[i].x, y |-> ops[i].y, isHit |-> ops[i].isHit])
            /\ txPending' = FALSE
       ELSE UNCHANGED <<receivedShots, txPending>>
  /\ ops' = RemoveAt(ops, i)
  /\ UNCHANGED <<remote, address, syncVars, secret, myShots, selectedCell,
                 actionError, generating>>

\* variant: the entry is appended on failure too
respondFail_Appends(i) ==
  /\ ops[i].kind = "respond" /\ ops[i].stage \in {"proving", "invoking"}
  /\ IF ops[i].live
       THEN /\ actionError' = "respond failed"
            /\ txPending' = FALSE
            /\ generating' = FALSE
            /\ receivedShots' = Append(receivedShots,
                 [x |-> ops[i].x, y |-> ops[i].y, isHit |-> ops[i].isHit])
       ELSE UNCHANGED <<actionError, txPending, generating, receivedShots>>
  /\ ops' = RemoveAt(ops, i)
  /\ UNCHANGED <<remote, address, syncVars, secret, myShots, selectedCell>>

\* generateProof or submitResponse raised: catch and finally
respondFail(i) ==
  /\ ops[i].kind = "respond" /\ ops[i].stage \in {"proving", "invoking"}
  /\ IF ops[i].live
       THEN /\ actionError' = "respond failed"
            /\ txPending' = FALSE
            /\ generating' = FALSE
       ELSE UNCHANGED <<actionError, txPending, generating>>
  /\ ops' = RemoveAt(ops, i)
  /\ UNCHANGED <<remote, address, syncVars, secret, myShots, receivedShots,
                 selectedCell>>

\* =========================================================================
\* Environment: the ledger settles a submitted transaction, the players'
\* transactions change the contract
\* =========================================================================

Accepts(r, op) ==
  CASE op.kind = "fire" -> CanFire(r, Me)
    [] op.kind = "respond" -> CanRespond(r, Me, op.x, op.y)
    [] OTHER -> FALSE

Applied(r, op) ==
  CASE op.kind = "fire" -> fire_shot(r, Me, op.x, op.y)
    [] op.kind = "respond" -> submit_response(r, Me)
    [] OTHER -> r

\* the transaction of invocation i is included and succeeds on chain
txLand(i) ==
  /\ ops[i].stage = "invoking"
  /\ Accepts(remote, ops[i])
  /\ remote' = Applied(remote, ops[i])
  /\ ops' = [ops EXCEPT ![i].stage = "landed"]
  /\ UNCHANGED <<address, syncVars, secret, playVars>>

\* a fire_shot transaction of player a, sent from elsewhere, succeeds
remoteFire(a, x, y) ==
  /\ CanFire(remote, a)
  /\ remote' = fire_shot(remote, a, x, y)
  /\ UNCHANGED <<address, syncVars, secret, playVars, ops>>

\* a submit_response transaction of player a, sent from elsewhere, succeeds
remoteRespond(a) ==
  /\ CanRespond(remote, a, remote.pending_shot_x, remote.pending_shot_y)
  /\ remote' = submit_response(remote, a)
  /\ UNCHANGED <<address, syncVars, secret, playVars, ops>>

\* =========================================================================
\* Spec: PlayPhase and App against the remote contract.  The game is in the
\* Playing phase when the page loads; the secret of the local player is in
\* this browser's storage, or it is not (committed elsewhere, storage
\* cleared).  A new poll starts only when no poll is outstanding.
\* =========================================================================

PlayIdle ==
  /\ myShots = <<>> /\ receivedShots = <<>> /\ selectedCell = Null
  /\ actionError = NoError /\ txPending = FALSE /\ generating = FALSE
  /\ ops = <<>>

SyncIdle ==
  gameState = Null /\ error = NoError /\ intervalRef = FALSE /\ polls = <<>>

InvokeIdle ==
  /\ ipc = "idle" /\ imethod = "" /\ iattempt = 0 /\ iqueries = 0
  /\ ielapsed = 0 /\ ilast = "none" /\ ioutcome = "none"

TurnIdle == turnFlags = Null

\* the subsystems the other specifications exercise, not yet in use
AuxIdle ==
  /\ poller = Null /\ turnTimer = Null /\ placement = Null
  /\ storage = Null /\ wire = Null /\ calc = Null

Init ==
  /\ remote \in {RemotePlaying(Me, Opp), RemotePlaying(Opp, Me)}
  /\ address = NoAddr
  /\ SyncIdle
  /\ secret \in {Null, CorruptItem, SavedItem}
  /\ PlayIdle
  /\ InvokeIdle
  /\ TurnIdle
  /\ AuxIdle

NoPollOutstanding == polls = <<>>

Next ==
  \/ walletConnect
  \/ walletDisconnect
  \/ NoPollOutstanding /\ startPolling
  \/ NoPollOutstanding /\ timerTick
  \/ \E i \in DOMAIN polls : pollAnswer(i)
  \/ \E i \in DOMAIN polls : refreshSettle(i) /\ Render(gameState', address)
  \/ \E c \in Cells : handleCellSelect(c.y, c.x)
  \/ handleFire
  \/ \E i \in DOMAIN ops : fireOk(i)
  \/ \E i \in DOMAIN ops : fireFail(i)
  \/ \E i \in DOMAIN ops : proofDone(i)
  \/ \E i \in DOMAIN ops : respondOk(i)
  \/ \E i \in DOMAIN ops : respondFail(i)
  \/ \E i \in DOMAIN ops : txLand(i)
  \/ \E c \in Cells : remoteFire(Opp, c.x, c.y)
  \/ remoteRespond(Opp)

Spec == Init /\ [][Next /\ UNCHANGED <<invokeVars, turnFlags, auxVars>>]_vars

\* =========================================================================
\* SpecSync: the synchronizer alone.  App stays mounted or unmounts
\* (stopPolling), polls overlap, the contract changes under it.
\* =========================================================================

InitSync ==
  /\ remote = RemotePlaying(Me, Opp)
  /\ address = Me
  /\ SyncIdle
  /\ secret = Null
  /\ PlayIdle
  /\ InvokeIdle
  /\ TurnIdle
  /\ AuxIdle

NextSync ==
  \/ startPolling
  \/ stopPolling
  \/ timerTick
  \/ refreshNow
  \/ \E i \in DOMAIN polls : pollAnswer(i)
  \/ \E i \in DOMAIN polls : refreshSettle(i) /\ UNCHANGED <<playVars, ops>>
  \/ \E a \in {Me, Opp}, c \in Cells : remoteFire(a, c.x, c.y)
  \/ \E a \in {Me, Opp} : remoteRespond(a)

SpecSync == InitSync /\ [][NextSync /\ UNCHANGED <<invokeVars, turnFlags, auxVars>>]_vars

\* =========================================================================
\* SpecInvoke: one write operation through the pipeline (invoke), a step per
\* awaited call.  Every awaited call can answer any of its statuses or fail.
\* =========================================================================

Methods == {"join_game", "commit_board", "fire_shot", "submit_response",
            "reset_game"}

\* what each remote call of the pipeline can answer
SimResults == {"threw", "error", "noresults", "ok"}
SendStatuses == {"threw", "ERROR_txTooLate", "ERROR", "DUPLICATE",
                 "TRY_AGAIN_LATER", "PENDING"}
TxStatuses == {"threw", "SUCCESS", "FAILED", "NOT_FOUND"}

Raise(msg) == ipc' = "done" /\ ioutcome' = msg

\* reqAddr: a blank address raises before invoke is entered
reqAddr(addr) == addr # NoAddr

\* joinGame, commitBoard, fireShot, submitResponse, resetGame
writeCall(method, addr) ==
  /\ ipc = "idle"
  /\ imethod' = method
  /\ IF reqAddr(addr)
       THEN ipc' = "getAccount" /\ UNCHANGED ioutcome
       ELSE Raise("Address required")
  /\ UNCHANGED <<iattempt, iqueries, ielapsed, ilast>>

invokeGetAccount(ok) ==
  /\ ipc = "getAccount"
  /\ IF ok THEN ipc' = "rawSim" /\ UNCHANGED ioutcome
           ELSE Raise("network error")
  /\ UNCHANGED <<imethod, iattempt, iqueries, ielapsed, ilast>>

invokeSimulate(sim) ==
  /\ ipc = "rawSim"
  /\ CASE sim = "threw" -> Raise("network error")
       [] sim = "error" -> Raise("simulation error")
       [] sim = "noresults" -> Raise("No simulation results")
       [] OTHER -> ipc' = "sign" /\ UNCHANGED ioutcome
  /\ UNCHANGED <<imethod, iattempt, iqueries, ielapsed, ilast>>

invokeSign(ok) ==
  /\ ipc = "sign"
  /\ IF ok THEN ipc' = "send" /\ UNCHANGED ioutcome
           ELSE Raise("signing rejected")
  /\ UNCHANGED <<imethod, iattempt, iqueries, ielapsed, ilast>>

\* variant: a DUPLICATE submission is reported like an on-chain failure
invokeSend_DuplicateAsFailed(status) ==
  /\ ipc = "send"
  /\ CASE status = "threw" -> Raise("network error") /\ UNCHANGED iattempt
       [] status = "ERROR_txTooLate" ->
            Raise("Transaction expired") /\ UNCHANGED iattempt
       [] status = "ERROR" -> Raise("Send failed") /\ UNCHANGED iattempt
       [] status = "DUPLICATE" ->
            Raise("Transaction failed on-chain") /\ UNCHANGED iattempt
       [] status = "TRY_AGAIN_LATER" -> Raise("Network busy") /\ UNCHANGED iattempt
       [] OTHER -> ipc' = "loop" /\ iattempt' = 0 /\ UNCHANGED ioutcome
  /\ UNCHANGED <<imethod, iqueries, ielapsed, ilast>>

invokeSend(status) ==
  /\ ipc = "send"
  /\ CASE status = "threw" -> Raise("network error") /\ UNCHANGED iattempt
       [] status = "ERROR_txTooLate" ->
            Raise("Transaction expired") /\ UNCHANGED iattempt
       [] status = "ERROR" -> Raise("Send failed") /\ UNCHANGED iattempt
       [] status = "DUPLICATE" -> Raise("Already submitted") /\ UNCHANGED iattempt
       [] status = "TRY_AGAIN_LATER" -> Raise("Network busy") /\ UNCHANGED iattempt
       [] OTHER -> ipc' = "loop" /\ iattempt' = 0 /\ UNCHANGED ioutcome
  /\ UNCHANGED <<imethod, iqueries, ielapsed, ilast>>

\* variant: the loop test admits one more round
LoopContinues_OneMore(i) == i <= MAX_ATTEMPTS

\* the test of the confirmation loop: for (let i = 0; i < 40; i++)
LoopContinues(i) == i < MAX_ATTEMPTS

\* await new Promise(r => setTimeout(r, 1500))
invokeDelay ==
  /\ ipc = "loop"
  /\ LoopContinues(iattempt)
  /\ ipc' = "query"
  /\ ielapsed' = ielapsed + ATTEMPT_DELAY_MS
  /\ UNCHANGED <<imethod, iattempt, iqueries, ilast, ioutcome>>

\* status = await server.getTransaction(sent.hash), and the two tests on it
invokeGetTransaction(status) ==
  /\ ipc = "query"
  /\ iqueries' = iqueries + 1
  /\ ilast' = status
  /\ CASE status = "threw" -> Raise("network error") /\ UNCHANGED iattempt
       [] status = "SUCCESS" ->
            ipc' = "done" /\ ioutcome' = "returned" /\ UNCHANGED iattempt
       [] status = "FAILED" ->
            Raise("Transaction failed on-chain") /\ UNCHANGED iattempt
       [] OTHER -> ipc' = "loop" /\ iattempt' = iattempt + 1 /\ UNCHANGED ioutcome
  /\ UNCHANGED <<imethod, ielapsed>>

\* variant: running out of attempts returns normally
invokeTimeout_Returns ==
  /\ ipc = "loop"
  /\ ~LoopContinues(iattempt)
  /\ ipc' = "done" /\ ioutcome' = "returned"
  /\ UNCHANGED <<imethod, iattempt, iqueries, ielapsed, ilast>>

\* the loop ran out: throw new Error('Confirmation timeout ...')
invokeTimeout ==
  /\ ipc = "loop"
  /\ ~LoopContinues(iattempt)
  /\ Raise("Confirmation timeout")
  /\ UNCHANGED <<imethod, iattempt, iqueries, ielapsed, ilast>>

InitInvoke ==
  /\ remote = RemotePlaying(Me, Opp)
  /\ address = Me
  /\ SyncIdle
  /\ secret = Null
  /\ PlayIdle
  /\ InvokeIdle
  /\ TurnIdle
  /\ AuxIdle

InvokeStep ==
  \/ \E ok \in BOOLEAN : invokeGetAccount(ok)
  \/ \E sim \in SimResults : invokeSimulate(sim)
  \/ \E ok \in BOOLEAN : invokeSign(ok)
  \/ \E status \in SendStatuses : invokeSend(status)
  \/ invokeDelay
  \/ \E status \in TxStatuses : invokeGetTransaction(status)
  \/ invokeTimeout

NextInvoke ==
  \/ \E method \in Methods, addr \in {Me, NoAddr} : writeCall(method, addr)
  \/ InvokeStep

SpecInvoke ==
  InitInvoke /\ [][NextInvoke /\ UNCHANGED <<clientVars, turnFlags, auxVars>>]_vars

\* every awaited call of an invocation in progress settles, and the timer
\* of the delay fires
SpecInvokeLive ==
  /\ SpecInvoke
  /\ WF_vars(InvokeStep /\ UNCHANGED <<clientVars, turnFlags, auxVars>>)

\* =========================================================================
\* SpecTurn: the turn derivation of PlayPhase over every snapshot (whose
\* turn is the local player, the other player or nobody, and whose pending
\* shot fields are coordinates or NO_SHOT) and both identities.
\* =========================================================================

TurnCoords == 0..MaxCoord

TurnStates ==
  {[phase |-> "Playing", player1 |-> Me, player2 |-> Opp, turn |-> t,
    pending_shot_x |-> px, pending_shot_y |-> py,
    shots_fired_p1 |-> 0, shots_fired_p2 |-> 0] :
     t \in {Me, Opp, NoAddr},
     px \in TurnCoords \cup {NO_SHOT},
     py \in TurnCoords \cup {NO_SHOT}}

InitTurn ==
  /\ remote = RemotePlaying(Me, Opp)
  /\ address \in {Me, Opp}
  /\ gameState \in {Some(g) : g \in TurnStates}
  /\ error = NoError /\ intervalRef = FALSE /\ polls = <<>>
  /\ secret = Null
  /\ PlayIdle
  /\ InvokeIdle
  /\ TurnIdle
  /\ AuxIdle

\* PlayPhase renders with props gameState and playerAddress
deriveTurn ==
  /\ turnFlags = Null
  /\ turnFlags' = Some([isMyTurn |-> isMyTurn(gameState[1], address),
                        hasPendingShot |-> hasPendingShot(gameState[1]),
                        needToFire |-> needToFire(gameState[1], address),
                        needToRespond |-> needToRespond(gameState[1], address)])
  /\ UNCHANGED <<clientVars, invokeVars, auxVars>>

NextTurn == deriveTurn

SpecTurn == InitTurn /\ [][NextTurn]_vars

\* =========================================================================
\* SpecCall: handleFire around one invocation of the pipeline: what the
\* component shows for each way fireShot can end.
\* =========================================================================

\* handleFire up to its await of fireShot, entering the pipeline
fireShotCall ==
  /\ ~(selectedCell = Null \/ txPending)
  /\ txPending' = TRUE
  /\ actionError' = NoError
  /\ writeCall("fire_shot", address)
  /\ UNCHANGED <<remote, address, syncVars, secret, myShots, receivedShots,
                 selectedCell, generating, ops>>

\* handleFire after fireShot returned or raised: try tail, catch, finally
fireShotSettle ==
  /\ ipc = "done"
  /\ ipc' = "settled"
  /\ IF ioutcome = "returned"
       THEN /\ myShots' = Append(myShots, ShotAt(selectedCell[1].col,
                                                 selectedCell[1].row))
            /\ selectedCell' = Null
            /\ UNCHANGED actionError
       ELSE /\ actionError' = ioutcome
            /\ UNCHANGED <<myShots, selectedCell>>
  /\ txPending' = FALSE
  /\ UNCHANGED <<remote, address, syncVars, secret, receivedShots, generating,
                 ops, imethod, iattempt, iqueries, ielapsed, ilast, ioutcome>>

InitCall ==
  /\ remote = RemotePlaying(Me, Opp)
  /\ address = Me
  /\ gameState = Some(remote)
  /\ error = NoError /\ intervalRef = TRUE /\ polls = <<>>
  /\ secret = Null
  /\ myShots = <<>> /\ receivedShots = <<>>
  /\ selectedCell \in {Some([row |-> c.y, col |-> c.x]) : c \in Cells}
  /\ actionError \in {NoError, "fire failed"}
  /\ txPending = FALSE /\ generating = FALSE
  /\ ops = <<>>
  /\ InvokeIdle
  /\ TurnIdle
  /\ AuxIdle

NextCall ==
  \/ fireShotCall /\ UNCHANGED <<turnFlags, auxVars>>
  \/ InvokeStep /\ UNCHANGED <<clientVars, turnFlags, auxVars>>
  \/ fireShotSettle /\ UNCHANGED <<turnFlags, auxVars>>

SpecCall == InitCall /\ [][NextCall]_vars

\* =========================================================================
\* SpecPoller: startPolling / stopPolling of useGameState against a clock.
\* A timer is [id, armedAt, due]; intervalRef holds the id of the timer
\* setInterval returned, or 0 for null.
\* =========================================================================

ClientIdle ==
  /\ remote = RemotePlaying(Me, Opp)
  /\ address = Me
  /\ SyncIdle
  /\ secret = Null
  /\ PlayIdle

ClockStepMs == POLL_INTERVAL_MS \div StepsPerInterval

PollerMounted ==
  [intervalRef |-> 0, timers |-> {}, now |-> 0, issued |-> 0, last |-> "none"]

\* variant: startPolling without the test of intervalRef.current
startPollingAt_NoGuard(p) ==
  [p EXCEPT !.issued = @ + 1,
            !.last = "start",
            !.intervalRef = p.issued + 1,
            !.timers = @ \cup {[id |-> p.issued + 1, armedAt |-> p.now,
                                due |-> p.now + POLL_INTERVAL_MS]}]

\* startPolling: return if a timer is referenced; else refresh() now and
\* setInterval(refresh, POLL_INTERVAL_MS)
startPollingAt(p) ==
  IF p.intervalRef # 0 THEN p
  ELSE [p EXCEPT !.issued = @ + 1,
                 !.last = "start",
                 !.intervalRef = p.issued + 1,
                 !.timers = @ \cup {[id |-> p.issued + 1, armedAt |-> p.now,
                                     due |-> p.now + POLL_INTERVAL_MS]}]

\* stopPolling: clearInterval(intervalRef.current); intervalRef.current = null
stopPollingAt(p) ==
  IF p.intervalRef = 0 THEN p
  ELSE [p EXCEPT !.timers = {t \in @ : t.id # p.intervalRef},
                 !.intervalRef = 0]

\* a live interval timer comes due and calls refresh
intervalFires(p, t) ==
  [p EXCEPT !.issued = @ + 1,
            !.last = "timer",
            !.timers = (@ \ {t}) \cup {[t EXCEPT !.due = @ + POLL_INTERVAL_MS]}]

pollerStart ==
  /\ poller[1].issued < MaxIssued
  /\ poller' = Some(startPollingAt(poller[1]))

pollerStop == poller' = Some(stopPollingAt(poller[1]))

pollerFire ==
  /\ poller[1].issued < MaxIssued
  /\ \E t \in poller[1].timers :
       /\ t.due = poller[1].now
       /\ poller' = Some(intervalFires(poller[1], t))

\* time passes, never past the moment a live timer is due
pollerWait ==
  /\ poller[1].now < MaxClockSteps * ClockStepMs
  /\ \A t \in poller[1].timers : t.due > poller[1].now
  /\ poller' = Some([poller[1] EXCEPT !.now = @ + ClockStepMs])

InitPoller ==
  /\ ClientIdle
  /\ InvokeIdle
  /\ TurnIdle
  /\ poller = Some(PollerMounted)
  /\ turnTimer = Null /\ placement = Null /\ storage = Null /\ wire = Null
  /\ calc = Null

NextPoller ==
  \/ pollerStart
  \/ pollerStop
  \/ pollerFire
  \/ pollerWait

SpecPoller ==
  InitPoller /\ [][NextPoller /\ UNCHANGED <<calc, clientVars, invokeVars, turnFlags,
                                             turnTimer, placement, storage,
                                             wire>>]_vars

\* =========================================================================
\* SpecTurnTimer: one mounted instance of useTurnTimer.  Its props
\* (isMyTurn, turnKey) change with the renders of PlayPhase; its interval
\* ticks once a second while it is live.  ticks counts the ticks since the
\* last reset (it stops counting at TURN_SECONDS), before is the value of
\* seconds that the last reset replaced (-1: no reset yet).
\* =========================================================================

TurnKeys == 1..NumKeys

TimerMounted(mine, key) ==
  [isMyTurn |-> mine, turnKey |-> key, seconds |-> TURN_SECONDS,
   expired |-> FALSE, armed |-> mine, ticks |-> 0, before |-> -1]

\* variant: the reset effect also depends on isMyTurn
ResetEffect_OnTurnToo(t, mine, key) ==
  IF key # t.turnKey \/ mine # t.isMyTurn
    THEN [t EXCEPT !.seconds = TURN_SECONDS, !.expired = FALSE, !.ticks = 0,
                   !.before = t.seconds]
    ELSE t

\* useEffect(() => { setSeconds(TURN_SECONDS); setExpired(false) }, [turnKey])
ResetEffect(t, mine, key) ==
  IF key # t.turnKey
    THEN [t EXCEPT !.seconds = TURN_SECONDS, !.expired = FALSE, !.ticks = 0,
                   !.before = t.seconds]
    ELSE t

\* variant: the interval is started whoever holds the turn
CountdownEffect_Always(t, mine, key) ==
  IF mine # t.isMyTurn \/ key # t.turnKey
    THEN [t EXCEPT !.armed = TRUE]
    ELSE t

\* the countdown effect, deps [isMyTurn, turnKey]: clearInterval, then
\* setInterval only if isMyTurn
CountdownEffect(t, mine, key) ==
  IF mine # t.isMyTurn \/ key # t.turnKey
    THEN [t EXCEPT !.armed = mine]
    ELSE t

\* variant: the tick latches expired one second early
TickOf_Early(t) ==
  IF t.seconds <= 2
    THEN [t EXCEPT !.seconds = 0, !.expired = TRUE, !.armed = FALSE,
                   !.ticks = IF @ < TURN_SECONDS THEN @ + 1 ELSE @]
    ELSE [t EXCEPT !.seconds = @ - 1,
                   !.ticks = IF @ < TURN_SECONDS THEN @ + 1 ELSE @]

\* the interval callback: setSeconds(prev => prev <= 1 ? (expired, clear, 0)
\* : prev - 1)
TickOf(t) ==
  IF t.seconds <= 1
    THEN [t EXCEPT !.seconds = 0, !.expired = TRUE, !.armed = FALSE,
                   !.ticks = IF @ < TURN_SECONDS THEN @ + 1 ELSE @]
    ELSE [t EXCEPT !.seconds = @ - 1,
                   !.ticks = IF @ < TURN_SECONDS THEN @ + 1 ELSE @]

\* PlayPhase renders with new props; the effects whose deps changed run
timerRender(mine, key) ==
  /\ <<mine, key>> # <<turnTimer[1].isMyTurn, turnTimer[1].turnKey>>
  /\ LET t == turnTimer[1]
         r == ResetEffect(t, mine, key)
         c == CountdownEffect(t, mine, key)
     IN turnTimer' = Some([r EXCEPT !.armed = c.armed, !.isMyTurn = mine,
                                    !.turnKey = key])

timerTick1s ==
  /\ turnTimer[1].armed
  /\ turnTimer' = Some(TickOf(turnTimer[1]))

InitTurnTimer ==
  /\ ClientIdle
  /\ InvokeIdle
  /\ TurnIdle
  /\ turnTimer \in {Some(TimerMounted(mine, 1)) : mine \in BOOLEAN}
  /\ poller = Null /\ placement = Null /\ storage = Null /\ wire = Null
  /\ calc = Null

NextTurnTimer ==
  \/ \E mine \in BOOLEAN, key \in TurnKeys : timerRender(mine, key)
  \/ timerTick1s

SpecTurnTimer ==
  InitTurnTimer /\ [][NextTurnTimer /\ UNCHANGED <<calc, clientVars, invokeVars,
                                                   turnFlags, poller, placement,
                                                   storage, wire>>]_vars

\* =========================================================================
\* SpecBoard: CommitPhase's board under handleCellClick, from the empty
\* board, in any click order.  A board is board[row][col] with 1 for a ship.
\* placement keeps the board, the last call of toggleCell (cell, input, the
\* argument array as it is after the call) and, for the current run of
\* clicks on one cell, its length (up to 2) and the board it started from.
\* =========================================================================

Coords == 0..(BoardSide - 1)

\* emptyBoard
emptyBoard == [row \in Coords |-> [col \in Coords |-> 0]]

\* the reduce: the sum of the first k elements of q
RECURSIVE SumSeq(_, _)
SumSeq(q, k) == IF k = 0 THEN 0 ELSE SumSeq(q, k - 1) + q[k]

\* board.flat(): the rows one after the other
Flat(board) ==
  [k \in 1..(BoardSide * BoardSide) |->
     board[(k - 1) \div BoardSide][(k - 1) % BoardSide]]

\* countShips: board.flat().reduce((sum, cell) => sum + cell, 0)
countShips(board) == SumSeq(Flat(board), BoardSide * BoardSide)

\* variant: a ship is added whatever the count
toggleCell_NoBudget(board, row, col) ==
  [next |-> IF board[row][col] = 1
              THEN [board EXCEPT ![row][col] = 0]
              ELSE [board EXCEPT ![row][col] = 1],
   arg |-> board]

\* variant: removing a ship is subject to the budget test as well
toggleCell_BudgetFirst(board, row, col) ==
  [next |-> IF countShips(board) < TOTAL_SHIPS
              THEN [board EXCEPT ![row][col] = 1 - @]
              ELSE board,
   arg |-> board]

\* toggleCell: next is the returned copy, arg the argument after the call
toggleCell(board, row, col) ==
  [next |-> IF board[row][col] = 1
              THEN [board EXCEPT ![row][col] = 0]
              ELSE IF countShips(board) < TOTAL_SHIPS
                THEN [board EXCEPT ![row][col] = 1]
                ELSE board,
   arg |-> board]

PlacementMounted ==
  [board |-> emptyBoard, row |-> -1, col |-> -1, input |-> emptyBoard,
   argAfter |-> emptyBoard, run |-> 0, origin |-> emptyBoard]

\* handleCellClick: setBoard(prev => toggleCell(prev, row, col))
handleCellClick(row, col) ==
  LET pl == placement[1]
      r == toggleCell(pl.board, row, col)
      again == pl.row = row /\ pl.col = col /\ pl.run = 1
  IN placement' = Some([board |-> r.next, row |-> row, col |-> col,
                        input |-> pl.board, argAfter |-> r.arg,
                        run |-> IF again THEN 2 ELSE 1,
                        origin |-> IF again THEN pl.origin ELSE pl.board])

InitBoard ==
  /\ ClientIdle
  /\ InvokeIdle
  /\ TurnIdle
  /\ placement = Some(PlacementMounted)
  /\ poller = Null /\ turnTimer = Null /\ storage = Null /\ wire = Null
  /\ calc = Null

NextBoard == \E row \in Coords, col \in Coords : handleCellClick(row, col)

SpecBoard ==
  InitBoard /\ [][NextBoard /\ UNCHANGED <<calc, clientVars, invokeVars, turnFlags,
                                           poller, turnTimer, storage, wire>>]_vars

\* =========================================================================
\* SpecStorage: savePlayerSecret, loadPlayerSecret and clearPlayerSecret on
\* the browser's localStorage, which other code (an older build, the user's
\* developer tools) can write as well.  storage keeps the item under each
\* key, the secret last saved under each key and not cleared since, and the
\* result of the load just made (Null after any other step).
\* =========================================================================

\* `${LS_PREFIX}:${contractId}:${playerAddress}`
StorageKey(contractId, playerAddress) ==
  <<"zk-battleship", contractId, playerAddress>>

StorageKeys ==
  {StorageKey("CA", Me), StorageKey("CA", Opp), StorageKey("CB", Me)}

SecondSecret == [board |-> {CellList[2]}, salt |-> "salt2"]
Secrets == {StoredSecret, SecondSecret}

\* JSON.stringify({ board, salt })
JsonOf(sec) == Some([wellFormed |-> TRUE, parsed |-> sec])

\* text that parses, to a value that is no {board, salt} of a game: "{}"
ShapelessItem == Some([wellFormed |-> TRUE, parsed |-> [board |-> {}, salt |-> ""]])

StorageEmpty ==
  [items |-> [k \in StorageKeys |-> Null],
   saved |-> [k \in StorageKeys |-> Null],
   loaded |-> Null]

savePlayerSecret(k, sec) ==
  storage' = Some([storage[1] EXCEPT !.items[k] = JsonOf(sec),
                                     !.saved[k] = Some(sec),
                                     !.loaded = Null])

clearPlayerSecret(k) ==
  storage' = Some([storage[1] EXCEPT !.items[k] = Null,
                                     !.saved[k] = Null,
                                     !.loaded = Null])

\* the item under k is overwritten from outside these three functions
storageTamper(k, item) ==
  /\ storage[1].items[k] # item
  /\ storage' = Some([storage[1] EXCEPT !.items[k] = item, !.loaded = Null])

\* a call of loadPlayerSecret for key k
storageLoad(k) ==
  /\ storage[1].loaded # Some([key |-> k,
                                result |-> loadPlayerSecret(storage[1].items[k])])
  /\ storage' = Some([storage[1] EXCEPT !.loaded =
                        Some([key |-> k,
                              result |-> loadPlayerSecret(storage[1].items[k])])])

InitStorage ==
  /\ ClientIdle
  /\ InvokeIdle
  /\ TurnIdle
  /\ storage = Some(StorageEmpty)
  /\ poller = Null /\ turnTimer = Null /\ placement = Null /\ wire = Null
  /\ calc = Null

NextStorage ==
  \/ \E k \in StorageKeys, sec \in Secrets : savePlayerSecret(k, sec)
  \/ \E k \in StorageKeys : clearPlayerSecret(k)
  \/ \E k \in StorageKeys, item \in {CorruptItem, ShapelessItem} :
       storageTamper(k, item)
  \/ \E k \in StorageKeys : storageLoad(k)

SpecStorage ==
  InitStorage /\ [][NextStorage /\ UNCHANGED <<calc, clientVars, invokeVars,
                                               turnFlags, poller, turnTimer,
                                               placement, wire>>]_vars

\* =========================================================================
\* SpecWire: the arguments of the remote calls CommitPhase and PlayPhase
\* make.  An argument is [tag, n, s, derived, reveals]: what it is, its
\* value (a number or a string), the parts of the secret it is computed
\* from, and the parts of the secret that can be read off it.  wire keeps
\* the index in SecretList of the secret in use (0: none) and the calls sent.
\* =========================================================================

SecretList == <<StoredSecret, SecondSecret>>

AddressArg(a) ==
  [tag |-> "address", n |-> 0, s |-> a, derived |-> {}, reveals |-> {}]
U32Arg(v) ==
  [tag |-> "u32", n |-> v, s |-> "", derived |-> {}, reveals |-> {}]
\* the board or the salt itself
PlainArg(part, k) ==
  [tag |-> part, n |-> k, s |-> "", derived |-> {part}, reveals |-> {part}]

\* computeBoardHash(board, salt): the Poseidon2 commitment, computed locally
computeBoardHash(k) ==
  [tag |-> "hash", n |-> k, s |-> "", derived |-> {"board", "salt"},
   reveals |-> {}]

\* generateProof({board, salt, boardHash, shotX, shotY}): the proof bytes
\* and the hit/miss bit
generateProof(k, x, y) ==
  [proof |-> [tag |-> "proof", n |-> 100 * k + 10 * x + y, s |-> "",
              derived |-> {"board", "salt"}, reveals |-> {}],
   isHit |-> [tag |-> "hit",
              n |-> IF IsHit(SecretList[k].board, x, y) THEN 1 ELSE 0,
              s |-> "", derived |-> {"board"}, reveals |-> {}]]

Call(method, args) == [method |-> method, args |-> args]

WireSend(k, call) == wire' = Some([secret |-> k, sent |-> wire[1].sent \cup {call}])

\* variant: the commit call carries the board next to the hash
handleConfirm_SendsBoard(k) ==
  /\ wire[1].secret = 0
  /\ WireSend(k, Call("commit_board",
                      <<AddressArg(Me), computeBoardHash(k), PlainArg("board", k)>>))

\* CommitPhase handleConfirm: hash, savePlayerSecret, commitBoard
handleConfirm(k) ==
  /\ wire[1].secret = 0
  /\ WireSend(k, Call("commit_board", <<AddressArg(Me), computeBoardHash(k)>>))

\* Lobby: joinGame(address, signTx)
wireJoin ==
  /\ wire[1].secret = 0
  /\ WireSend(0, Call("join_game", <<AddressArg(Me)>>))

\* Lobby handleReset: resetGame(address, signTx); the next game commits anew
handleReset ==
  WireSend(0, Call("reset_game", <<AddressArg(Me)>>))

\* PlayPhase handleFire: fireShot(playerAddress, col, row, signTx); the
\* play screen is shown once the boards are committed
wireFire(x, y) ==
  /\ wire[1].secret # 0
  /\ WireSend(wire[1].secret,
              Call("fire_shot", <<AddressArg(Me), U32Arg(x), U32Arg(y)>>))

\* PlayPhase auto-respond: generateProof, then submitResponse(playerAddress,
\* x, y, isHit, proof, signTx)
wireRespond(x, y) ==
  /\ wire[1].secret # 0
  /\ LET r == generateProof(wire[1].secret, x, y) IN
       WireSend(wire[1].secret,
                Call("submit_response",
                     <<AddressArg(Me), U32Arg(x), U32Arg(y), r.isHit, r.proof>>))

InitWire ==
  /\ ClientIdle
  /\ InvokeIdle
  /\ TurnIdle
  /\ wire = Some([secret |-> 0, sent |-> {}])
  /\ poller = Null /\ turnTimer = Null /\ placement = Null /\ storage = Null
  /\ calc = Null

NextWire ==
  \/ wireJoin
  \/ handleReset
  \/ \E k \in DOMAIN SecretList : handleConfirm(k)
  \/ \E c \in Cells : wireFire(c.x, c.y)
  \/ \E c \in Cells : wireRespond(c.x, c.y)

SpecWire ==
  InitWire /\ [][NextWire /\ UNCHANGED <<calc, clientVars, invokeVars, turnFlags,
                                         poller, turnTimer, placement,
                                         storage>>]_vars

\* =========================================================================
\* SpecSalt: generateSalt (board.ts).  A BigInt is the sequence of its
\* hexadecimal digits, most significant first, without leading zeros (0n is
\* the empty sequence); a string of hexadecimal digits is the sequence of
\* its digits.  calc holds the bytes crypto.getRandomValues drew and the
\* digits of the string returned after "0x".
\* =========================================================================

\* the digits of BN254_MODULUS =
\* 21888242871839275222246405745257275088548364400416034343698204186575808495617
BN254_MODULUS ==
  <<
    3, 0, 6, 4, 4, 14, 7, 2, 14, 1, 3, 1, 10, 0, 2, 9,
    11, 8, 5, 0, 4, 5, 11, 6, 8, 1, 8, 1, 5, 8, 5, 13,
    2, 8, 3, 3, 14, 8, 4, 8, 7, 9, 11, 9, 7, 0, 9, 1,
    4, 3, 14, 1, 15, 5, 9, 3, 15, 0, 0, 0, 0, 0, 0, 1 >>

\* the digits without the leading zeros
StripZeros(d) ==
  IF \A i \in 1..Len(d) : d[i] = 0 THEN <<>>
  ELSE LET first == CHOOSE i \in 1..Len(d) :
                      d[i] # 0 /\ \A j \in 1..(i - 1) : d[j] = 0
       IN SubSeq(d, first, Len(d))

\* s.padStart(width, '0')
padStart(s, width) ==
  IF Len(s) >= width THEN s
  ELSE [i \in 1..(width - Len(s)) |-> 0] \o s

\* a < b on BigInts
BigLess(a, b) ==
  IF Len(a) # Len(b) THEN Len(a) < Len(b)
  ELSE \E i \in 1..Len(a) :
         a[i] < b[i] /\ \A j \in 1..(i - 1) : a[j] = b[j]

\* a - b on BigInts, for a >= b: digit i borrows when the digits to its
\* right are smaller in a than in b
BigSub(a, b) ==
  LET w == Len(a)
      bb == padStart(b, w)
      borrow(i) == IF \E j \in (i + 1)..w :
                        bb[j] > a[j] /\ \A k \in (i + 1)..(j - 1) : a[k] = bb[k]
                   THEN 1 ELSE 0
  IN StripZeros([i \in 1..w |-> (a[i] - bb[i] - borrow(i) + 16) % 16])

\* a + b on BigInts: digit i takes a carry when the digits to its right
\* overflow
BigAdd(a, b) ==
  LET w == (IF Len(a) > Len(b) THEN Len(a) ELSE Len(b)) + 1
      aa == padStart(a, w)
      bb == padStart(b, w)
      carry(i) == IF \E j \in (i + 1)..w :
                       /\ aa[j] + bb[j] > 15
                       /\ \A k \in (i + 1)..(j - 1) : aa[k] + bb[k] = 15
                  THEN 1 ELSE 0
  IN StripZeros([i \in 1..w |-> (aa[i] + bb[i] + carry(i)) % 16])

\* a % m on BigInts
RECURSIVE BigMod(_, _)
BigMod(a, m) == IF BigLess(a, m) THEN a ELSE BigMod(BigSub(a, m), m)

\* b.toString(16).padStart(2, '0') for a byte, the strings joined
HexOfBytes(bytes) ==
  [i \in 1..(2 * Len(bytes)) |->
     IF i % 2 = 1 THEN bytes[(i + 1) \div 2] \div 16
                  ELSE bytes[i \div 2] % 16]

\* BigInt('0x' + digits)
BigIntOfHex(h) == StripZeros(h)

\* n.toString(16)
toString16(n) == IF n = <<>> THEN <<0>> ELSE n

\* variant: the raw value is returned without the reduction
generateSalt_Unreduced(bytes) ==
  padStart(toString16(BigIntOfHex(HexOfBytes(bytes))), 64)

\* generateSalt, for the bytes drawn
generateSalt(bytes) ==
  LET raw == BigIntOfHex(HexOfBytes(bytes))
      reduced == BigMod(raw, BN254_MODULUS)
  IN padStart(toString16(reduced), 64)

\* the bytes of a BigInt below 2^256
BytesOfBigInt(n) ==
  LET h == padStart(n, 2 * SALT_BYTES)
  IN [i \in 1..SALT_BYTES |-> 16 * h[2 * i - 1] + h[2 * i]]

RECURSIVE ModulusTimes(_)
ModulusTimes(k) ==
  IF k = 0 THEN <<>> ELSE BigAdd(ModulusTimes(k - 1), BN254_MODULUS)

\* the draws of crypto.getRandomValues studied: every first byte before
\* all-zero and all-one bytes, and the values next to each multiple of the
\* modulus below 2^256
SaltDraws ==
  {<<b>> \o [i \in 1..(SALT_BYTES - 1) |-> t] : b \in 0..255, t \in {0, 255}}
  \cup UNION {{BytesOfBigInt(BigSub(ModulusTimes(k), <<1>>)),
               BytesOfBigInt(ModulusTimes(k)),
               BytesOfBigInt(BigAdd(ModulusTimes(k), <<1>>))} : k \in 1..5}

\* one call of generateSalt, with the bytes the draw gives
generateSaltCall ==
  /\ calc[1].salt = <<>>
  /\ calc' = Some([bytes |-> calc[1].bytes,
                   salt |-> generateSalt(calc[1].bytes)])

InitSalt ==
  /\ ClientIdle
  /\ InvokeIdle
  /\ TurnIdle
  /\ calc \in {Some([bytes |-> bytes, salt |-> <<>>]) : bytes \in SaltDraws}
  /\ poller = Null /\ turnTimer = Null /\ placement = Null
  /\ storage = Null /\ wire = Null

NextSalt == generateSaltCall

SpecSalt ==
  InitSalt /\ [][NextSalt /\ UNCHANGED <<clientVars, invokeVars, turnFlags,
                                         poller, turnTimer, placement,
                                         storage, wire>>]_vars

\* =========================================================================
\* SpecDecode: the primitive decoders of contract.ts.  A value node (ScVal)
\* is a record: its tag, the value of each arm, and whether reading its
\* tag (switch()) or its arm throws, as it does on an object that is not a
\* well-formed node; an undefined node is Null.  The result of a function
\* body is [threw, n, s, b, hex]: whether an exception leaves it, and the
\* number, string, boolean or "0x" string of digits returned.
\* =========================================================================

ScTags == {"scvU32", "scvBool", "scvBytes", "scvAddress", "scvSymbol", "scvVoid"}

ScVal(tag, u32, b, bytes, addr) ==
  [tag |-> tag, u32 |-> u32, b |-> b, bytes |-> bytes, addr |-> addr,
   switchThrows |-> FALSE, unwrapThrows |-> FALSE]

NoScAddress == [kind |-> "none", id |-> 0]
ScAddresses == {[kind |-> k, id |-> i] :
                  k \in {"account", "contract", "other"}, i \in 1..2}

\* the well-formed nodes studied
ScNodes ==
  {ScVal("scvU32", v, FALSE, <<>>, NoScAddress) : v \in {0, 1, 7, NO_SHOT}}
  \cup {ScVal("scvBool", 0, v, <<>>, NoScAddress) : v \in BOOLEAN}
  \cup {ScVal("scvBytes", 0, FALSE, v, NoScAddress) :
          v \in {<<>>, <<0>>, <<10, 255>>}}
  \cup {ScVal("scvAddress", 0, FALSE, <<>>, v) : v \in ScAddresses}
  \cup {ScVal(t, 0, FALSE, <<>>, NoScAddress) : t \in {"scvSymbol", "scvVoid"}}

\* the nodes studied: undefined, well formed, and throwing on access
ScInputs ==
  {Null} \cup {Some(sv) : sv \in ScNodes}
  \cup {Some([sv EXCEPT !.switchThrows = st, !.unwrapThrows = ut]) :
          sv \in ScNodes, st \in BOOLEAN, ut \in BOOLEAN}

Ret == [threw |-> FALSE, n |-> 0, s |-> "", b |-> FALSE, hex |-> Null]
Throw == [Ret EXCEPT !.threw = TRUE]

\* try { body } catch { return fallback }
TryCatch(body, fallback) == IF body.threw THEN fallback ELSE body

\* svType: the tag, -1 ("none") when it cannot be read
svType(sv) ==
  IF sv = Null \/ sv[1].switchThrows THEN "none" ELSE sv[1].tag

\* StrKey.encodeEd25519PublicKey / StrKey.encodeContract
StrKeyEncode(addr) ==
  CASE addr.kind = "account" /\ addr.id = 1 -> "GME"
    [] addr.kind = "account" /\ addr.id = 2 -> "GOPP"
    [] addr.kind = "contract" /\ addr.id = 1 -> "CA"
    [] addr.kind = "contract" /\ addr.id = 2 -> "CB"

svAddress(sv) ==
  TryCatch(IF sv = Null \/ svType(sv) # "scvAddress" THEN Ret
           ELSE IF sv[1].unwrapThrows THEN Throw
           ELSE IF sv[1].addr.kind \in {"account", "contract"}
             THEN [Ret EXCEPT !.s = StrKeyEncode(sv[1].addr)]
           ELSE Ret,
           Ret)

\* variant: the arm is read outside the try
svU32_NoCatch(sv, fallback) ==
  IF sv = Null \/ svType(sv) # "scvU32" THEN [Ret EXCEPT !.n = fallback]
  ELSE IF sv[1].unwrapThrows THEN Throw
  ELSE [Ret EXCEPT !.n = sv[1].u32]

svU32(sv, fallback) ==
  TryCatch(IF sv = Null \/ svType(sv) # "scvU32"
             THEN [Ret EXCEPT !.n = fallback]
           ELSE IF sv[1].unwrapThrows THEN Throw
           ELSE [Ret EXCEPT !.n = sv[1].u32],
           [Ret EXCEPT !.n = fallback])

svBool(sv) ==
  TryCatch(IF sv = Null \/ svType(sv) # "scvBool" THEN Ret
           ELSE IF sv[1].unwrapThrows THEN Throw
           ELSE [Ret EXCEPT !.b = sv[1].b],
           Ret)

\* '0x' + Buffer.from(sv.bytes()).toString('hex')
svBytes(sv) ==
  TryCatch(IF sv = Null \/ svType(sv) # "scvBytes" THEN Ret
           ELSE IF sv[1].unwrapThrows THEN Throw
           ELSE [Ret EXCEPT !.hex = Some(HexOfBytes(sv[1].bytes))],
           Ret)

Decoders == {"svAddress", "svU32", "svBool", "svBytes"}

\* the fallbacks parseGameState passes to svU32: the default and NO_SHOT
U32Fallbacks == {0, NO_SHOT}

decodeCall ==
  /\ calc[1].out = Null
  /\ LET sv == calc[1].sv IN
       calc' = Some([calc[1] EXCEPT !.out = Some(
         CASE calc[1].fn = "svAddress" -> svAddress(sv)
           [] calc[1].fn = "svU32" -> svU32(sv, calc[1].fallback)
           [] calc[1].fn = "svBool" -> svBool(sv)
           [] calc[1].fn = "svBytes" -> svBytes(sv))])

InitDecode ==
  /\ ClientIdle
  /\ InvokeIdle
  /\ TurnIdle
  /\ calc \in {Some([fn |-> f, sv |-> sv, fallback |-> fb, out |-> Null]) :
                 f \in Decoders, sv \in ScInputs, fb \in U32Fallbacks}
  /\ poller = Null /\ turnTimer = Null /\ placement = Null
  /\ storage = Null /\ wire = Null

NextDecode == decodeCall

SpecDecode ==
  InitDecode /\ [][NextDecode /\ UNCHANGED <<clientVars, invokeVars,
                                             turnFlags, poller, turnTimer,
                                             placement, storage, wire>>]_vars

\* =========================================================================
\* SpecEnum: the enum-variant decoders, svEnumVariant of contract.ts and
\* svEnum of the pipeline module.  A node here is [tag, sym, items]: items
\* are the elements of a sequence node or the keys of a map node, each a
\* [tag, sym] node.
\* =========================================================================

VariantNames == {"Commit", "Playing"}

EnumItem(tag, sym) == [tag |-> tag, sym |-> sym]

EnumItems ==
  {EnumItem("scvSymbol", n) : n \in VariantNames}
  \cup {EnumItem("scvString", "Playing"), EnumItem("scvU32", "")}

EnumNode(tag, sym, items) ==
  [tag |-> tag, sym |-> sym, items |-> items,
   switchThrows |-> FALSE, unwrapThrows |-> FALSE]

\* sequences of at most two items
EnumItemLists ==
  {<<>>} \cup {<<a>> : a \in EnumItems}
  \cup {<<a, b>> : a \in EnumItems, b \in EnumItems}

EnumNodes ==
  {EnumNode("scvSymbol", n, <<>>) : n \in VariantNames}
  \cup {EnumNode(t, "", l) : t \in {"scvVec", "scvMap"}, l \in EnumItemLists}
  \cup {EnumNode(t, "", <<>>) : t \in {"scvU32", "scvVoid"}}

EnumInputs ==
  {Null} \cup {Some(sv) : sv \in EnumNodes}
  \cup {Some([sv EXCEPT !.switchThrows = st, !.unwrapThrows = ut]) :
          sv \in EnumNodes, st \in BOOLEAN, ut \in BOOLEAN}

\* contract.ts svEnumVariant
svEnumVariant(sv) ==
  TryCatch(
    IF sv = Null THEN Ret
    ELSE LET t == svType(sv)
             n == sv[1]
         IN IF t \in {"scvVec", "scvSymbol", "scvMap"} /\ n.unwrapThrows
              THEN Throw
            ELSE IF /\ t = "scvVec"
                    /\ Len(n.items) > 0
                    /\ n.items[1].tag = "scvSymbol"
              THEN [Ret EXCEPT !.s = n.items[1].sym]
            ELSE IF t = "scvSymbol" THEN [Ret EXCEPT !.s = n.sym]
            ELSE IF /\ t = "scvMap"
                    /\ Len(n.items) > 0
                    /\ n.items[1].tag = "scvSymbol"
              THEN [Ret EXCEPT !.s = n.items[1].sym]
            ELSE Ret,
    Ret)

\* the pipeline module's svEnum: the tag is read inside the try, and there
\* is no map branch
svEnum(sv) ==
  TryCatch(
    IF sv = Null THEN Ret
    ELSE LET n == sv[1] IN
         IF n.switchThrows THEN Throw
         ELSE IF n.tag \in {"scvVec", "scvSymbol"} /\ n.unwrapThrows
           THEN Throw
         ELSE IF /\ n.tag = "scvVec"
                 /\ Len(n.items) > 0
                 /\ n.items[1].tag = "scvSymbol"
           THEN [Ret EXCEPT !.s = n.items[1].sym]
         ELSE IF n.tag = "scvSymbol" THEN [Ret EXCEPT !.s = n.sym]
         ELSE Ret,
    Ret)

EnumDecoders == {"svEnumVariant", "svEnum"}

enumCall ==
  /\ calc[1].out = Null
  /\ calc' = Some([calc[1] EXCEPT !.out = Some(
       IF calc[1].fn = "svEnumVariant" THEN svEnumVariant(calc[1].sv)
       ELSE svEnum(calc[1].sv))])

InitEnum ==
  /\ ClientIdle
  /\ InvokeIdle
  /\ TurnIdle
  /\ calc \in {Some([fn |-> f, sv |-> sv, out |-> Null]) :
                 f \in EnumDecoders, sv \in EnumInputs}
  /\ poller = Null /\ turnTimer = Null /\ placement = Null
  /\ storage = Null /\ wire = Null

NextEnum == enumCall

SpecEnum ==
  InitEnum /\ [][NextEnum /\ UNCHANGED <<clientVars, invokeVars, turnFlags,
                                         poller, turnTimer, placement,
                                         storage, wire>>]_vars

\* =========================================================================
\* SpecFetch: the bodies of fetchGameState and getPlayerStats with what the
\* simulation of the read call can do, and the error their callers
\* (useGameState.refresh, PlayerProfile.load) report.  A map node is
\* [tag |-> "scvMap", fields]: fields gives the node under each key, Null
\* where the map has no such key.
\* =========================================================================

\* getServer / getAccount / simulateTransaction: an exception, a simulation
\* error, a success without retval, a success with retval
RpcOutcomes == {"throws", "error", "noRetval", "retval"}

\* an entry of a map node: the tag and the text of its key, whether reading
\* the key throws, and its value
MapEntry(ktag, key, val) ==
  [ktag |-> ktag, key |-> key, keyThrows |-> FALSE, val |-> val]

\* the entries, under symbol keys, of the fields of rec that are present
FieldEntries(rec, names) ==
  LET present == SelectSeq(names, LAMBDA n : rec[n] # Null)
  IN [i \in 1..Len(present) |->
        MapEntry("scvSymbol", present[i], rec[present[i]][1])]

StateFields(phase, x, won) ==
  [phase |-> phase, pending_shot_x |-> x, has_winner |-> won]

StateMaps ==
  {[tag |-> "scvMap", switchThrows |-> FALSE,
    entries |-> FieldEntries(StateFields(phase, x, won),
                             <<"phase", "pending_shot_x", "has_winner">>)] :
     phase \in {Null, Some(EnumNode("scvSymbol", "Playing", <<>>)),
                Some(EnumNode("scvVec", "",
                              <<EnumItem("scvSymbol", "Commit")>>)),
                Some(EnumNode("scvU32", "", <<>>))},
     x \in {Null, Some(ScVal("scvU32", 1, FALSE, <<>>, NoScAddress)),
            Some(ScVal("scvVoid", 0, FALSE, <<>>, NoScAddress))},
     won \in {Null, Some(ScVal("scvBool", 0, TRUE, <<>>, NoScAddress))}}

\* a node that is not a map, and one whose tag cannot be read
StateOthers ==
  {[tag |-> "scvU32", switchThrows |-> st, entries |-> <<>>] :
     st \in BOOLEAN}

StateRetvals == StateMaps \cup StateOthers

\* the keys parseGameState reads
StateKeys ==
  {"player1", "player2", "board_hash_p1", "board_hash_p2", "hits_on_p1",
   "hits_on_p2", "shots_fired_p1", "shots_fired_p2", "turn", "phase",
   "pending_shot_x", "pending_shot_y", "pending_shooter", "winner",
   "has_winner", "p1_committed", "p2_committed", "p1_joined", "p2_joined",
   "session_id"}

\* the key the loop of svMap derives for an entry: '' when reading the key
\* throws or the key is neither a symbol nor a string
EntryKey(e) ==
  IF e.keyThrows THEN ""
  ELSE IF e.ktag \in {"scvSymbol", "scvString"} THEN e.key
  ELSE ""

\* variant: an entry without a usable key ends the loop
svMap_StopsAtBadKey(sv, keys) ==
  IF sv.switchThrows \/ sv.tag # "scvMap" THEN [k \in keys |-> Null]
  ELSE [k \in keys |->
          LET set == {i \in DOMAIN sv.entries :
                        /\ EntryKey(sv.entries[i]) = k /\ k # ""
                        /\ \A j \in 1..i : EntryKey(sv.entries[j]) # ""}
          IN IF set = {} THEN Null
             ELSE Some(sv.entries[CHOOSE i \in set :
                                    \A j \in set : j <= i].val)]

\* svMap: out[key] = entry.val() for every entry with a usable key, a later
\* entry replacing an earlier one of the same key; nothing for a node that
\* is not a map.  The result is given for the keys the caller reads.
svMap(sv, keys) ==
  IF sv.switchThrows \/ sv.tag # "scvMap" THEN [k \in keys |-> Null]
  ELSE [k \in keys |->
          LET set == {i \in DOMAIN sv.entries :
                        EntryKey(sv.entries[i]) = k /\ k # ""}
          IN IF set = {} THEN Null
             ELSE Some(sv.entries[CHOOSE i \in set :
                                    \A j \in set : j <= i].val)]

\* parseGameState
parseGameState(retval) ==
  LET f == svMap(retval, StateKeys)
      variant == svEnumVariant(f.phase).s
  IN [player1 |-> svAddress(f.player1).s,
      player2 |-> svAddress(f.player2).s,
      board_hash_p1 |-> svBytes(f.board_hash_p1).hex,
      board_hash_p2 |-> svBytes(f.board_hash_p2).hex,
      hits_on_p1 |-> svU32(f.hits_on_p1, 0).n,
      hits_on_p2 |-> svU32(f.hits_on_p2, 0).n,
      shots_fired_p1 |-> svU32(f.shots_fired_p1, 0).n,
      shots_fired_p2 |-> svU32(f.shots_fired_p2, 0).n,
      turn |-> svAddress(f.turn).s,
      phase |-> IF variant \in {"Commit", "Playing", "Finished"}
                THEN variant ELSE "WaitingForPlayers",
      pending_shot_x |-> svU32(f.pending_shot_x, NO_SHOT).n,
      pending_shot_y |-> svU32(f.pending_shot_y, NO_SHOT).n,
      pending_shooter |-> svAddress(f.pending_shooter).s,
      winner |-> svAddress(f.winner).s,
      has_winner |-> svBool(f.has_winner).b,
      p1_committed |-> svBool(f.p1_committed).b,
      p2_committed |-> svBool(f.p2_committed).b,
      p1_joined |-> svBool(f.p1_joined).b,
      p2_joined |-> svBool(f.p2_joined).b,
      session_id |-> svU32(f.session_id, 0).n]

\* variant: the call is awaited outside the try
fetchGameStateBody_NoCatch(configured, outcome, retval) ==
  IF ~configured THEN [threw |-> FALSE, val |-> Null]
  ELSE IF outcome = "throws" THEN [threw |-> TRUE, val |-> Null]
  ELSE IF outcome \in {"error", "noRetval"} THEN [threw |-> FALSE, val |-> Null]
  ELSE [threw |-> FALSE, val |-> Some(parseGameState(retval))]

\* fetchGameState
fetchGameStateBody(configured, outcome, retval) ==
  IF ~configured THEN [threw |-> FALSE, val |-> Null]
  ELSE LET body ==
             IF outcome = "throws" THEN [threw |-> TRUE, val |-> Null]
             ELSE IF outcome = "error" THEN [threw |-> FALSE, val |-> Null]
             ELSE IF outcome = "noRetval" THEN [threw |-> FALSE, val |-> Null]
             ELSE [threw |-> FALSE, val |-> Some(parseGameState(retval))]
       IN TryCatch(body, [threw |-> FALSE, val |-> Null])

StatsFields(played, won) == [games_played |-> played, games_won |-> won]
StatsKeys == {"games_played", "games_won"}

StatsMaps ==
  {[tag |-> "scvMap", switchThrows |-> FALSE,
    entries |-> FieldEntries(StatsFields(played, won),
                             <<"games_played", "games_won">>)] :
     played \in {Null, Some(ScVal("scvU32", 7, FALSE, <<>>, NoScAddress))},
     won \in {Null, Some(ScVal("scvU32", 1, FALSE, <<>>, NoScAddress)),
              Some(ScVal("scvBool", 0, TRUE, <<>>, NoScAddress))}}

\* Option<PlayerStats>: void, a map, a sequence (empty, or holding a map),
\* another node, a node that throws on access; vec is the sequence's content
StatsRetvals ==
  {[tag |-> "scvVoid", switchThrows |-> FALSE, unwrapThrows |-> FALSE,
    entries |-> <<>>, vec |-> <<>>]}
  \cup {[tag |-> "scvMap", switchThrows |-> st, unwrapThrows |-> FALSE,
         entries |-> m.entries, vec |-> <<>>] : m \in StatsMaps, st \in BOOLEAN}
  \cup {[tag |-> "scvVec", switchThrows |-> FALSE, unwrapThrows |-> ut,
         entries |-> <<>>, vec |-> v] :
          v \in {<<>>} \cup {<<m>> : m \in StatsMaps}, ut \in BOOLEAN}
  \cup {[tag |-> "scvU32", switchThrows |-> FALSE, unwrapThrows |-> FALSE,
         entries |-> <<>>, vec |-> <<>>]}

statsOf(f) ==
  [games_played |-> svU32(f.games_played, 0).n,
   games_won |-> svU32(f.games_won, 0).n]

\* getPlayerStats
getPlayerStats(configured, addrValid, outcome, retval) ==
  LET t == IF retval.switchThrows THEN "none" ELSE retval.tag
      body ==
        IF ~configured \/ ~addrValid THEN [threw |-> FALSE, val |-> Null]
        ELSE IF outcome = "throws" THEN [threw |-> TRUE, val |-> Null]
        ELSE IF outcome \in {"error", "noRetval"}
          THEN [threw |-> FALSE, val |-> Null]
        ELSE IF t = "scvVoid" THEN [threw |-> FALSE, val |-> Null]
        ELSE IF t = "scvVec"
          THEN IF retval.unwrapThrows THEN [threw |-> TRUE, val |-> Null]
               ELSE IF Len(retval.vec) = 0 THEN [threw |-> FALSE, val |-> Null]
               ELSE [threw |-> FALSE,
                     val |-> Some(statsOf(svMap(retval.vec[1], StatsKeys)))]
        ELSE [threw |-> FALSE,
              val |-> Some(statsOf(svMap(retval, StatsKeys)))]
  IN TryCatch(body, [threw |-> FALSE, val |-> Null])

\* the callers' try/catch: the error reported for a result
CallerError(result) == IF result.threw THEN "error" ELSE NoError

fetchStateCall ==
  /\ calc[1].fn = "fetchGameState"
  /\ calc[1].out = Null
  /\ LET r == fetchGameStateBody(calc[1].configured, calc[1].outcome,
                                 calc[1].retval)
     IN calc' = Some([calc[1] EXCEPT !.out = Some(r),
                                     !.error = CallerError(r)])

fetchStatsCall ==
  /\ calc[1].fn = "getPlayerStats"
  /\ calc[1].out = Null
  /\ LET r == getPlayerStats(calc[1].configured, calc[1].addrValid,
                             calc[1].outcome, calc[1].retval)
     IN calc' = Some([calc[1] EXCEPT !.out = Some(r),
                                     !.error = CallerError(r)])

InitFetch ==
  /\ ClientIdle
  /\ InvokeIdle
  /\ TurnIdle
  /\ calc \in
       {Some([fn |-> "fetchGameState", configured |-> c, addrValid |-> TRUE,
              outcome |-> o, retval |-> rv, out |-> Null, error |-> NoError]) :
          c \in BOOLEAN, o \in RpcOutcomes, rv \in StateRetvals}
       \cup
       {Some([fn |-> "getPlayerStats", configured |-> c, addrValid |-> a,
              outcome |-> o, retval |-> rv, out |-> Null, error |-> NoError]) :
          c \in BOOLEAN, a \in BOOLEAN, o \in RpcOutcomes, rv \in StatsRetvals}
  /\ poller = Null /\ turnTimer = Null /\ placement = Null
  /\ storage = Null /\ wire = Null

NextFetch ==
  \/ fetchStateCall
  \/ fetchStatsCall

SpecFetch ==
  InitFetch /\ [][NextFetch /\ UNCHANGED <<clientVars, invokeVars, turnFlags,
                                           poller, turnTimer, placement,
                                           storage, wire>>]_vars

\* =========================================================================
\* SpecInvite: the game instance the client addresses.  calc holds the
\* CONTRACT_ID of the build, the ?game= parameter of the URL (Null: none),
\* App's inviteContractId, GameLobby's view, and the instance identifier of
\* every read, write and secret-store key used so far.
\* =========================================================================

ContractIds == {"CA", "CB"}

ReadMethods == {"get_state", "get_player_stats"}
WriteMethods == {"join_game", "commit_board", "fire_shot", "submit_response"}

InviteMounted(configured, game) ==
  [CONTRACT_ID |-> configured, game |-> game, inviteContractId |-> Null,
   mounted |-> FALSE, view |-> "menu", used |-> {}]

\* App's mount effect: params.get('game') goes to inviteContractId and is
\* removed from the URL; GameLobby starts in the join view when it is set
appMount ==
  /\ ~calc[1].mounted
  /\ calc' = Some([calc[1] EXCEPT
                     !.mounted = TRUE,
                     !.inviteContractId = calc[1].game,
                     !.game = Null,
                     !.view = IF calc[1].game # Null THEN "join" ELSE "menu"])

Uses(kind, id) ==
  calc' = Some([calc[1] EXCEPT !.used = @ \cup {[kind |-> kind, id |-> id]}])

\* fetchGameState / getPlayerStats: new Contract(CONTRACT_ID)
inviteRead(method) ==
  /\ calc[1].mounted
  /\ calc[1].CONTRACT_ID # ""
  /\ Uses(method, calc[1].CONTRACT_ID)

\* invoke: new Contract(CONTRACT_ID).call(method, ...args); the lobby's
\* buttons are disabled without a CONTRACT_ID
inviteWrite(method) ==
  /\ calc[1].mounted
  /\ calc[1].CONTRACT_ID # ""
  /\ Uses(method, calc[1].CONTRACT_ID)

\* CommitPhase / PlayPhase: contractId={CONTRACT_ID} keys the secret store
inviteSecretKey ==
  /\ calc[1].mounted
  /\ calc[1].CONTRACT_ID # ""
  /\ Uses("secretKey", calc[1].CONTRACT_ID)

InitInvite ==
  /\ ClientIdle
  /\ InvokeIdle
  /\ TurnIdle
  /\ calc \in {Some(InviteMounted(c, g)) :
                 c \in ContractIds \cup {""},
                 g \in {Null} \cup {Some(id) : id \in ContractIds}}
  /\ poller = Null /\ turnTimer = Null /\ placement = Null
  /\ storage = Null /\ wire = Null

NextInvite ==
  \/ appMount
  \/ \E m \in ReadMethods : inviteRead(m)
  \/ \E m \in WriteMethods : inviteWrite(m)
  \/ inviteSecretKey

SpecInvite ==
  InitInvite /\ [][NextInvite /\ UNCHANGED <<clientVars, invokeVars, turnFlags,
                                             poller, turnTimer, placement,
                                             storage, wire>>]_vars

\* =========================================================================
\* SpecStop: useGameState from its start to after its stop.  calc records
\* whether stopPolling has been called, the snapshot and the error at that
\* moment, and how many polls have completed since.
\* =========================================================================

StopIdle == [stopped |-> FALSE, gameState |-> Null, error |-> NoError,
             settled |-> 0]

stopStart ==
  /\ ~calc[1].stopped
  /\ startPolling
  /\ UNCHANGED calc

stopTick ==
  /\ timerTick
  /\ UNCHANGED calc

stopAnswer(i) ==
  /\ pollAnswer(i)
  /\ UNCHANGED calc

stopSettle(i) ==
  /\ refreshSettle(i)
  /\ UNCHANGED <<playVars, ops>>
  /\ calc' = IF calc[1].stopped
               THEN Some([calc[1] EXCEPT !.settled = @ + 1])
               ELSE calc

\* the effect's cleanup: stopPolling
stopStop ==
  /\ stopPolling
  /\ calc' = Some([stopped |-> TRUE, gameState |-> gameState,
                   error |-> error, settled |-> 0])

stopRemote ==
  /\ \/ \E a \in {Me, Opp}, c \in Cells : remoteFire(a, c.x, c.y)
     \/ \E a \in {Me, Opp} : remoteRespond(a)
  /\ UNCHANGED calc

InitStop ==
  /\ remote = RemotePlaying(Me, Opp)
  /\ address = Me
  /\ SyncIdle
  /\ secret = Null
  /\ PlayIdle
  /\ InvokeIdle
  /\ TurnIdle
  /\ calc = Some(StopIdle)
  /\ poller = Null /\ turnTimer = Null /\ placement = Null
  /\ storage = Null /\ wire = Null

NextStop ==
  \/ stopStart
  \/ stopTick
  \/ \E i \in DOMAIN polls : stopAnswer(i)
  \/ \E i \in DOMAIN polls : stopSettle(i)
  \/ stopStop
  \/ stopRemote

SpecStop ==
  InitStop /\ [][NextStop /\ UNCHANGED <<invokeVars, turnFlags, poller,
                                         turnTimer, placement, storage,
                                         wire>>]_vars

\* =========================================================================
\* SpecOrder: the polls of useGameState in the order they were issued.
\* calc numbers the calls of refresh: issued is the number of calls made,
\* seqs[i] the number of the call polls[i] belongs to, and bestSeq / bestVal
\* the number and the result of the last-issued call among those that have
\* completed with a result (0: none yet).
\* =========================================================================

OrderIdle == [issued |-> 0, seqs |-> <<>>, bestSeq |-> 0, bestVal |-> Null]

Issue ==
  /\ calc[1].issued < MaxIssued
  /\ calc' = Some([calc[1] EXCEPT !.issued = @ + 1,
                                  !.seqs = Append(@, calc[1].issued + 1)])

orderStart == startPolling /\ Issue

orderTick == timerTick /\ Issue

orderRefreshNow == refreshNow /\ Issue

orderAnswer(i) == pollAnswer(i) /\ UNCHANGED calc

orderSettle(i) ==
  /\ refreshSettle(i)
  /\ UNCHANGED <<playVars, ops>>
  /\ calc' = Some([calc[1] EXCEPT
       !.seqs = RemoveAt(@, i),
       !.bestSeq = IF polls[i].res = "ok" /\ calc[1].seqs[i] > @
                     THEN calc[1].seqs[i] ELSE @,
       !.bestVal = IF polls[i].res = "ok" /\ calc[1].seqs[i] > calc[1].bestSeq
                     THEN polls[i].val ELSE @])

orderRemote ==
  /\ \/ \E a \in {Me, Opp}, c \in Cells : remoteFire(a, c.x, c.y)
     \/ \E a \in {Me, Opp} : remoteRespond(a)
  /\ UNCHANGED calc

InitOrder ==
  /\ remote = RemotePlaying(Me, Opp)
  /\ address = Me
  /\ SyncIdle
  /\ secret = Null
  /\ PlayIdle
  /\ InvokeIdle
  /\ TurnIdle
  /\ calc = Some(OrderIdle)
  /\ poller = Null /\ turnTimer = Null /\ placement = Null
  /\ storage = Null /\ wire = Null

NextOrder ==
  \/ orderStart
  \/ orderTick
  \/ orderRefreshNow
  \/ \E i \in DOMAIN polls : orderAnswer(i)
  \/ \E i \in DOMAIN polls : orderSettle(i)
  \/ orderRemote

SpecOrder ==
  InitOrder /\ [][NextOrder /\ UNCHANGED <<invokeVars, turnFlags, poller,
                                           turnTimer, placement, storage,
                                           wire>>]_vars

\* =========================================================================
\* SpecShot: the shots the local player fires, their entries in myShots and
\* the opponent's answers.  calc holds the log, the remote record (per shot
\* the answer given, in the order fired; the contract adds the hits up in
\* hits_on_p1 / hits_on_p2) and what the last snapshot showed: the number
\* of answered shots and the hit count.
\* =========================================================================

ShotIdle ==
  [myShots |-> <<>>, answers |-> <<>>, pending |-> FALSE,
   snapAnswered |-> 0, snapHits |-> 0]

RECURSIVE HitsIn(_)
HitsIn(answers) ==
  IF answers = <<>> THEN 0
  ELSE (IF Head(answers) THEN 1 ELSE 0) + HitsIn(Tail(answers))

\* handleFire, fireShot returning: the entry is appended with isHit false
shotFire(x, y) ==
  /\ ~calc[1].pending
  /\ Len(calc[1].myShots) < MaxShots
  /\ ~HasShot(calc[1].myShots, y, x)
  /\ calc' = Some([calc[1] EXCEPT !.myShots = Append(@, ShotAt(x, y)),
                                  !.pending = TRUE])

\* the opponent's submit_response for the pending shot
shotAnswer(hit) ==
  /\ calc[1].pending
  /\ calc' = Some([calc[1] EXCEPT !.answers = Append(@, hit),
                                  !.pending = FALSE])

\* a poll: the snapshot shows the remote record; PlayPhase renders, myShots
\* is not touched
shotPoll ==
  calc' = Some([calc[1] EXCEPT !.snapAnswered = Len(calc[1].answers),
                               !.snapHits = HitsIn(calc[1].answers)])

InitShot ==
  /\ ClientIdle
  /\ InvokeIdle
  /\ TurnIdle
  /\ calc = Some(ShotIdle)
  /\ poller = Null /\ turnTimer = Null /\ placement = Null
  /\ storage = Null /\ wire = Null

NextShot ==
  \/ \E i \in DOMAIN CellList : shotFire(CellList[i].x, CellList[i].y)
  \/ \E hit \in BOOLEAN : shotAnswer(hit)
  \/ shotPoll

SpecShot ==
  InitShot /\ [][NextShot /\ UNCHANGED <<clientVars, invokeVars, turnFlags,
                                         poller, turnTimer, placement,
                                         storage, wire>>]_vars

\* =========================================================================
\* Claims
\* =========================================================================

\* C1: a poll that fails to reach the remote platform leaves the cached
\* snapshot as it was (so it never turns a snapshot into null).
C1_FailedPollKeepsSnapshot ==
  [][\A i \in DOMAIN polls :
        (polls[i].res = "unreachable" /\ polls' = RemoveAt(polls, i))
          => gameState' = gameState]_vars

\* C2: no two respond invocations for the same pending shot (x, y) are in
\* flight at the same time.
C2_NoDuplicateRespond ==
  \A i, j \in DOMAIN ops :
    (i # j /\ ops[i].kind = "respond" /\ ops[j].kind = "respond")
      => ~(ops[i].x = ops[j].x /\ ops[i].y = ops[j].y)

\* C3: at most one poll of the game state is in flight at any time.
C3_AtMostOnePollInFlight == Len(polls) <= 1

\* C5: every successful return of a pipeline call starts a fresh poll in the
\* same step.
C5_SuccessForcesPoll ==
  [][\A i \in DOMAIN ops :
        (ops[i].stage = "landed" /\ ops' = RemoveAt(ops, i))
          => Len(polls') = Len(polls) + 1]_vars

\* C6: when PlayPhase is shown, no invocation and no poll is outstanding and
\* the snapshot is the current remote state, the shots-I-fired log has as many
\* entries as the remote shots-fired counter of the local player, and no shot
\* twice.
C6_LogMatchesCounter ==
  (/\ deriveScreen(gameState, address) = "play"
   /\ ops = <<>>
   /\ polls = <<>>
   /\ gameState = Some(remote))
    => /\ Len(myShots) = ShotsFiredBy(remote, Me)
       /\ \A k, l \in DOMAIN myShots :
            (myShots[k].x = myShots[l].x /\ myShots[k].y = myShots[l].y) => k = l

\* C7: handleFire calls fireShot with the selected coordinate; when the call
\* returns, the component appends exactly one entry for that coordinate to
\* myShots and clears the selection; when it raises, myShots and the selection
\* stay and the error is shown; either way txPending is false afterwards.
C7_HandleFireFrame ==
  [][/\ (Len(ops') = Len(ops) + 1 /\ ops'[Len(ops')].kind = "fire")
          => /\ selectedCell # Null
             /\ ops'[Len(ops')].x = selectedCell[1].col
             /\ ops'[Len(ops')].y = selectedCell[1].row
     /\ \A i \in DOMAIN ops :
          (ops[i].kind = "fire" /\ ops[i].live /\ ops' = RemoveAt(ops, i))
            => IF ops[i].stage = "landed"
                 THEN /\ myShots' = Append(myShots, [x |-> ops[i].x, y |-> ops[i].y,
                                                     isHit |-> FALSE])
                      /\ selectedCell' = Null
                      /\ actionError' = actionError
                      /\ txPending' = FALSE
                 ELSE /\ myShots' = myShots
                      /\ selectedCell' = selectedCell
                      /\ actionError' # NoError
                      /\ txPending' = FALSE]_vars

C7_Witness ==
  /\ deriveScreen(gameState, address) = "play"
  /\ Len(myShots) = 1
  /\ selectedCell # Null
  /\ actionError = "fire failed"
  /\ ~txPending

\* C8: when the auto-respond effect runs with a response required and no
\* secret stored, it shows the secret-not-found error and stops: no respond
\* invocation (proof, submitResponse) starts, receivedShots and txPending
\* stay as they were, and the synchronizer's timer and polls are untouched.
EffectRuns ==
  /\ deriveScreen(gameState', address') = "play"
  /\ \/ deriveScreen(gameState, address) # "play"
     \/ RespondDeps(gameState'[1], address') # RespondDeps(gameState[1], address)

C8_SecretMissing ==
  [][(/\ EffectRuns
      /\ needToRespond(gameState'[1], address')
      /\ ~txPending /\ ~generating
      /\ loadPlayerSecret(secret) = Null)
       => /\ actionError' = "Board not found in localStorage"
          /\ ops' = ops
          /\ generating' = FALSE
          /\ receivedShots' = receivedShots
          /\ txPending' = txPending
          /\ intervalRef' = intervalRef]_vars

C8_Witness ==
  /\ deriveScreen(gameState, address) = "play"
  /\ needToRespond(gameState[1], address)
  /\ secret = CorruptItem
  /\ actionError = "Board not found in localStorage"
  /\ ops = <<>>
  /\ intervalRef

\* C4: for every snapshot and identity, needToFire holds exactly when the
\* turn is the local player's and pending_shot_x is NO_SHOT, needToRespond
\* exactly when the turn is the local player's and pending_shot_x is a
\* coordinate; never both, exactly one on the local player's turn, and none
\* on any other turn.
C4_TurnDerivation ==
  turnFlags # Null =>
    LET f == turnFlags[1]
        g == gameState[1]
        mine == g.turn = address
    IN /\ f.needToFire <=> (mine /\ g.pending_shot_x = NO_SHOT)
       /\ f.needToRespond <=> (mine /\ g.pending_shot_x \in TurnCoords)
       /\ ~(f.needToFire /\ f.needToRespond)
       /\ mine => (f.needToFire \/ f.needToRespond)
       /\ ~mine => (~f.needToFire /\ ~f.needToRespond)

C4_Witness ==
  /\ turnFlags # Null
  /\ gameState[1].turn = address
  /\ gameState[1].pending_shot_x \in TurnCoords
  /\ gameState[1].pending_shot_y = NO_SHOT
  /\ turnFlags[1].needToRespond
  /\ ~turnFlags[1].needToFire

\* C9: a write operation has returned normally only if the last status
\* query answered SUCCESS; every other way it ends is a raised failure, and
\* a SUCCESS answer always ends it by returning.
InvokeFailures ==
  {"Address required", "network error", "simulation error",
   "No simulation results", "signing rejected", "Transaction expired",
   "Send failed", "Already submitted", "Network busy",
   "Transaction failed on-chain", "Confirmation timeout"}

C9_ReturnsOnlyOnSuccess ==
  /\ ipc # "done" => ioutcome = "none"
  /\ ipc = "done" => ioutcome \in InvokeFailures \cup {"returned"}
  /\ ioutcome = "returned" <=> ilast = "SUCCESS"
  /\ ioutcome = "returned" => iqueries >= 1

C9_Witness ==
  /\ ipc = "done"
  /\ imethod = "fire_shot"
  /\ ioutcome = "returned"
  /\ ilast = "SUCCESS"
  /\ iqueries = 3

\* C10: an invocation makes at most 40 status queries, each after a delay of
\* 1500 ms; it raises the confirmation timeout only after the 40th query;
\* and once started it always ends.
C10_InvokeTerminates ==
  /\ [](/\ iqueries <= MAX_ATTEMPTS
        /\ ielapsed = ATTEMPT_DELAY_MS * (IF ipc = "query" THEN iqueries + 1
                                                           ELSE iqueries)
        /\ ioutcome = "Confirmation timeout"
             => (iqueries = MAX_ATTEMPTS /\ ilast = "NOT_FOUND"))
  /\ (ipc # "idle") ~> (ipc = "done")

C10_Witness ==
  /\ ipc = "done"
  /\ ioutcome = "Confirmation timeout"
  /\ iqueries = MAX_ATTEMPTS
  /\ ielapsed = MAX_ATTEMPTS * ATTEMPT_DELAY_MS

\* C11: a submission-time rejection (ERROR, DUPLICATE, TRY_AGAIN_LATER) is
\* raised before any status query; the on-chain failure message is raised
\* only on a FAILED answer, the timeout message only when the 40 attempts are
\* used up with no final answer: no message stands for two of these outcomes.
SubmitRejections ==
  {"Transaction expired", "Send failed", "Already submitted", "Network busy"}

C11_FailuresDistinct ==
  /\ ioutcome \in SubmitRejections => (iqueries = 0 /\ ilast = "none")
  /\ ioutcome = "Transaction failed on-chain" =>
       (ilast = "FAILED" /\ iqueries >= 1)
  /\ ioutcome = "Confirmation timeout" =>
       (ilast = "NOT_FOUND" /\ iqueries = MAX_ATTEMPTS)

C11_Witness ==
  /\ ipc = "done"
  /\ ioutcome = "Already submitted"
  /\ iqueries = 0

\* C12: when the user declines to sign, handleFire shows no error: the
\* outcome is a cancelled state, told apart from a fault.
C12_DeclineIsNotAnError ==
  (ipc = "settled" /\ ioutcome = "signing rejected") => actionError = NoError

\* C13: starting the synchronizer issues one poll at once and arms one timer
\* due POLL_INTERVAL_MS later; the only other polls are issued by that timer,
\* a whole number of intervals after it was armed; there is never a second
\* timer, and no timer while the synchronizer is stopped.
C13_PollerTimer ==
  [][LET p == poller[1]
         q == poller'[1]
     IN /\ Cardinality(q.timers) <= 1
        /\ q.intervalRef = 0 => q.timers = {}
        /\ (p.intervalRef = 0 /\ q.intervalRef # 0) =>
             /\ q.issued = p.issued + 1
             /\ q.now = p.now
             /\ \E t \in q.timers : t.due = p.now + POLL_INTERVAL_MS
        /\ q.issued # p.issued =>
             /\ q.issued = p.issued + 1
             /\ \/ p.intervalRef = 0 /\ q.intervalRef # 0
                \/ /\ p.intervalRef # 0
                   /\ \E t \in p.timers :
                        /\ t.id = p.intervalRef
                        /\ t.due = p.now
                        /\ t.due > t.armedAt
                        /\ (t.due - t.armedAt) % POLL_INTERVAL_MS = 0]_vars

C13_Witness ==
  /\ poller # Null
  /\ poller[1].issued = 3
  /\ poller[1].last = "timer"
  /\ poller[1].now = 2 * POLL_INTERVAL_MS
  /\ poller[1].intervalRef = 1

\* C14: the remaining time goes back to TURN_SECONDS at every change of the
\* turn key, and while the key stays the same it never goes up.
C14_ResetOnKeyChange ==
  [][LET t == turnTimer[1]
         u == turnTimer'[1]
     IN /\ u.turnKey # t.turnKey =>
             (u.seconds = TURN_SECONDS /\ ~u.expired /\ u.before = t.seconds)
        /\ u.turnKey = t.turnKey =>
             (u.seconds <= t.seconds /\ u.before = t.before)]_vars

C14_Witness ==
  /\ turnTimer # Null
  /\ turnTimer[1].turnKey = 2
  /\ turnTimer[1].before = 120
  /\ turnTimer[1].seconds = TURN_SECONDS

\* C15: expired is true only when TURN_SECONDS ticks have been counted since
\* the last reset; once true it stays true while the turn key is the same,
\* and it is false right after the key changes.
C15_ExpiredLatch ==
  [][LET t == turnTimer[1]
         u == turnTimer'[1]
     IN /\ t.expired => (t.ticks >= TURN_SECONDS /\ t.seconds = 0)
        /\ u.expired => (u.ticks >= TURN_SECONDS /\ u.seconds = 0)
        /\ (t.expired /\ u.turnKey = t.turnKey) => u.expired
        /\ u.turnKey # t.turnKey => ~u.expired]_vars

C15_Witness ==
  /\ turnTimer # Null
  /\ turnTimer[1].expired
  /\ turnTimer[1].ticks = TURN_SECONDS
  /\ ~turnTimer[1].isMyTurn
  /\ turnTimer[1].before = 0

\* C16: the remaining time goes down only in a step taken while the local
\* player holds the turn, and then by exactly one.
C16_CountdownOnlyOnMyTurn ==
  [][LET t == turnTimer[1]
         u == turnTimer'[1]
     IN u.seconds < t.seconds =>
          (t.isMyTurn /\ u.isMyTurn /\ u.seconds = t.seconds - 1)]_vars

C16_Witness ==
  /\ turnTimer # Null
  /\ ~turnTimer[1].isMyTurn
  /\ ~turnTimer[1].armed
  /\ turnTimer[1].seconds = 150
  /\ turnTimer[1].ticks = 150

\* C17: every board reached from the empty board holds at most TOTAL_SHIPS
\* ships; a toggle of an empty cell with TOTAL_SHIPS ships placed returns a
\* board equal to its input; no call changes the board it was given.
C17_ShipBudget ==
  LET pl == placement[1] IN
    /\ countShips(pl.board) <= TOTAL_SHIPS
    /\ pl.run > 0 =>
         /\ pl.argAfter = pl.input
         /\ (pl.input[pl.row][pl.col] = 0 /\ countShips(pl.input) = TOTAL_SHIPS)
              => pl.board = pl.input

C17_Witness ==
  /\ placement # Null
  /\ placement[1].run = 1
  /\ countShips(placement[1].input) = TOTAL_SHIPS
  /\ placement[1].input[placement[1].row][placement[1].col] = 0
  /\ placement[1].board = placement[1].input

\* C18: two calls of toggleCell in a row on the same cell give back the
\* board the first of them was given, on every reachable board and cell.
C18_DoubleToggle ==
  LET pl == placement[1] IN
    pl.run = 2 => pl.board = pl.origin

C18_Witness ==
  /\ placement # Null
  /\ placement[1].run = 2
  /\ countShips(placement[1].origin) = TOTAL_SHIPS - 1
  /\ placement[1].origin[placement[1].row][placement[1].col] = 0
  /\ placement[1].board = placement[1].origin

\* C19: a load under key k returns the secret last saved under k if its item
\* is still the saved one, and absent if nothing is stored under k (never
\* saved, or cleared) or if the stored item is corrupt, i.e. not the JSON
\* text of a secret; a save or clear under another key changes nothing that
\* is loaded under k.
C19_LoadSecret ==
  [][LET st == storage'[1] IN
       /\ st.loaded # Null =>
            LET k == st.loaded[1].key
                item == st.items[k]
                result == st.loaded[1].result
            IN /\ (st.saved[k] # Null /\ item = JsonOf(st.saved[k][1]))
                    => result = st.saved[k]
               /\ item = Null => result = Null
               /\ (item # Null /\ item \notin {JsonOf(sec) : sec \in Secrets})
                    => result = Null
       /\ \A k \in StorageKeys :
            (\E j \in StorageKeys \ {k} :
                storage[1].items[j] # st.items[j])
              => loadPlayerSecret(st.items[k]) =
                   loadPlayerSecret(storage[1].items[k])]_vars

\* C20: no argument of a call sent to the remote platform lets the board or
\* the salt be read off it, and the only arguments computed from the secret
\* are the commitment hash, the proof bytes and the hit/miss bit.
C20_SecretStaysLocal ==
  \A call \in wire[1].sent : \A i \in DOMAIN call.args :
    /\ call.args[i].reveals = {}
    /\ call.args[i].derived # {} => call.args[i].tag \in {"hash", "proof", "hit"}

C20_Witness ==
  /\ wire # Null
  /\ wire[1].secret = 1
  /\ \E call \in wire[1].sent : call.method = "commit_board"
  /\ \E call \in wire[1].sent : call.method = "fire_shot"
  /\ \E call \in wire[1].sent :
       call.method = "submit_response" /\ call.args[4].n = 1

Decodable(sv, tag) ==
  /\ sv # Null
  /\ ~sv[1].switchThrows /\ ~sv[1].unwrapThrows
  /\ sv[1].tag = tag

\* C22: a primitive decoder never throws; on a node whose tag is the
\* expected one and whose arm can be read it returns the encoded value
\* (an address of a kind without a text encoding has none), and on a
\* missing node, another tag or a failing read it returns its fallback.
C22_DecodersTotal ==
  calc[1].out # Null =>
    LET sv == calc[1].sv
        out == calc[1].out[1]
    IN /\ ~out.threw
       /\ calc[1].fn = "svU32" =>
            out.n = IF Decodable(sv, "scvU32") THEN sv[1].u32
                    ELSE calc[1].fallback
       /\ calc[1].fn = "svBool" =>
            out.b = IF Decodable(sv, "scvBool") THEN sv[1].b ELSE FALSE
       /\ calc[1].fn = "svBytes" =>
            IF Decodable(sv, "scvBytes")
            THEN /\ out.hex # Null
                 /\ Len(out.hex[1]) = 2 * Len(sv[1].bytes)
                 /\ \A i \in 1..Len(sv[1].bytes) :
                      16 * out.hex[1][2 * i - 1] + out.hex[1][2 * i]
                        = sv[1].bytes[i]
            ELSE out.hex = Null
       /\ calc[1].fn = "svAddress" =>
            out.s = IF /\ Decodable(sv, "scvAddress")
                       /\ sv[1].addr.kind \in {"account", "contract"}
                    THEN StrKeyEncode(sv[1].addr) ELSE ""

C22_Witness ==
  /\ calc # Null
  /\ calc[1].fn = "svU32"
  /\ calc[1].sv # Null
  /\ calc[1].sv[1].tag = "scvU32"
  /\ calc[1].sv[1].unwrapThrows
  /\ ~calc[1].sv[1].switchThrows
  /\ calc[1].fallback = NO_SHOT
  /\ calc[1].out # Null
  /\ calc[1].out[1].n = NO_SHOT

\* the variant name a node encodes: a bare symbol, a sequence whose first
\* element is a symbol, a map whose first key is a symbol; "" otherwise
EncodedVariant(sv) ==
  IF sv = Null \/ sv[1].switchThrows \/ sv[1].unwrapThrows THEN ""
  ELSE IF sv[1].tag = "scvSymbol" THEN sv[1].sym
  ELSE IF /\ sv[1].tag \in {"scvVec", "scvMap"}
          /\ Len(sv[1].items) > 0
          /\ sv[1].items[1].tag = "scvSymbol"
    THEN sv[1].items[1].sym
  ELSE ""

\* svEnumVariant decodes the three encodings
EnumVariantDecodes ==
  calc[1].out # Null /\ calc[1].fn = "svEnumVariant" =>
    /\ ~calc[1].out[1].threw
    /\ calc[1].out[1].s = EncodedVariant(calc[1].sv)

\* C23: the enum-variant decoders return the variant name for each of its
\* three encodings (bare symbol, sequence headed by the symbol, map whose
\* first key is the symbol) and the empty string for any other shape.
C23_EnumEncodings ==
  calc[1].out # Null =>
    /\ ~calc[1].out[1].threw
    /\ calc[1].out[1].s = EncodedVariant(calc[1].sv)

\* C24: fetchGameState and getPlayerStats never throw; when the read call
\* returns no value the game state (or the stats) is absent, and when the
\* stats call returns an explicit none the stats are absent; in neither
\* case does the caller report an error.
C24_AbsentNotError ==
  calc[1].out # Null =>
    /\ ~calc[1].out[1].threw
    /\ calc[1].outcome \in {"error", "noRetval"} =>
         calc[1].out[1].val = Null /\ calc[1].error = NoError
    /\ (/\ calc[1].fn = "getPlayerStats"
        /\ calc[1].outcome = "retval"
        /\ calc[1].retval.tag = "scvVoid") =>
         calc[1].out[1].val = Null /\ calc[1].error = NoError

C24_Witness ==
  /\ calc # Null
  /\ calc[1].fn = "getPlayerStats"
  /\ calc[1].configured /\ calc[1].addrValid
  /\ calc[1].outcome = "retval"
  /\ calc[1].retval.tag = "scvVoid"
  /\ calc[1].out = Some([threw |-> FALSE, val |-> Null])

\* C25: when the client was started from an invite link, every read, every
\* write and the secret-store key use the link's game identifier as the
\* game instance.
C25_InviteInstance ==
  calc[1].inviteContractId # Null =>
    \A u \in calc[1].used : u.id = calc[1].inviteContractId[1]

\* the invocations whose pipeline call (fireShot, submitResponse) has been
\* issued and has not returned
Outstanding == {i \in DOMAIN ops : ops[i].stage \in {"invoking", "landed"}}

\* within the mounted PlayPhase at most one pipeline call is outstanding,
\* and then txPending is set
OneCallPerInstance ==
  /\ Cardinality({i \in Outstanding : ops[i].live}) <= 1
  /\ (\E i \in Outstanding : ops[i].live) => txPending

\* C26: at any time at most one pipeline call for fire or respond is
\* outstanding for the local player.
C26_OneCallOutstanding == Cardinality(Outstanding) <= 1

\* C27: after stop has been called, whatever polls were in flight complete
\* without effect: the snapshot and the last error stay what they were when
\* stop was called.
C27_StoppedPollDiscarded ==
  calc[1].stopped =>
    /\ gameState = calc[1].gameState
    /\ error = calc[1].error

\* a completing poll replaces the snapshot by what fetchGameState returned,
\* as a whole
WholeReplacement ==
  [][\A i \in DOMAIN polls :
       (polls[i].res # "sent" /\ polls' = RemoveAt(polls, i))
         => gameState' = fetchGameState(polls[i].res, polls[i].val).val]_vars

\* C28: once a poll has succeeded, the snapshot equals the result of the
\* latest successful poll, in whatever order the responses arrived.
C28_LatestPollWins ==
  calc[1].bestSeq > 0 => gameState = calc[1].bestVal

\* C29: once a polled snapshot reflects the opponent's response to a shot,
\* the hit/miss outcome of the shot's entry in the local log equals the
\* outcome recorded remotely.
C29_SnapshotSupersedes ==
  \A k \in DOMAIN calc[1].myShots :
    k <= calc[1].snapAnswered =>
      calc[1].myShots[k].isHit = calc[1].answers[k]

\* C30: the respond action calls the proof engine with the stored board and
\* salt, the pending shot of the snapshot shown and the local player's own
\* committed hash; it calls submitResponse with the same coordinates and the
\* hit/miss value the engine returned; and the component that started it
\* appends one entry with those coordinates and that value to receivedShots
\* if and only if submitResponse succeeded.
C30_RespondAction ==
  [][/\ (Len(ops') = Len(ops) + 1 /\ ops'[Len(ops')].kind = "respond")
          => LET op == ops'[Len(ops')]
                 g == gameState'[1]
             IN /\ op.sec = loadPlayerSecret(secret) /\ op.sec # Null
                /\ op.x = g.pending_shot_x /\ op.y = g.pending_shot_y
                /\ op.x # NO_SHOT
                /\ op.boardHash = IF g.player1 = address' THEN g.board_hash_p1
                                  ELSE g.board_hash_p2
     /\ \A i \in DOMAIN ops :
          (/\ ops[i].kind = "respond"
           /\ DOMAIN ops' = DOMAIN ops
           /\ ops'[i].stage # ops[i].stage)
            => /\ ops'[i].x = ops[i].x /\ ops'[i].y = ops[i].y
               /\ ops'[i].sec = ops[i].sec
               /\ ops'[i].boardHash = ops[i].boardHash
               /\ ops[i].stage = "proving" =>
                    ops'[i].isHit = IsHit(ops[i].sec[1].board, ops[i].x, ops[i].y)
               /\ ops[i].stage = "invoking" =>
                    /\ ops'[i].isHit = ops[i].isHit
                    /\ CanRespond(remote, Me, ops[i].x, ops[i].y)
     /\ \A i \in DOMAIN ops :
          (ops[i].kind = "respond" /\ ops[i].live /\ ops' = RemoveAt(ops, i))
            => IF ops[i].stage = "landed"
                 THEN receivedShots' =
                        Append(receivedShots, [x |-> ops[i].x, y |-> ops[i].y,
                                               isHit |-> ops[i].isHit])
                 ELSE receivedShots' = receivedShots
     /\ (receivedShots' # receivedShots /\ receivedShots' # <<>>)
          => \E i \in DOMAIN ops :
               /\ ops[i].kind = "respond" /\ ops[i].stage = "landed"
               /\ ops' = RemoveAt(ops, i)]_vars

C30_Witness ==
  /\ deriveScreen(gameState, address) = "play"
  /\ Len(receivedShots) = 1
  /\ receivedShots[1].isHit
  /\ ~txPending
  /\ remote.player1 = Opp

\* =========================================================================
\* SpecPipeline: one invocation of invoke with the requests it makes kept in
\* the order it makes them, and the sequence numbers of the account it
\* fetched and of the two transactions it builds.
\* =========================================================================

MaxSeq == 1

\* sequence numbers the ledger can hold for the caller's account
SeqNumbers == 0..MaxSeq

\* TransactionBuilder.build(): the transaction takes the next sequence number
\* of the Account object it was given, and that object is advanced
Build(account) == [tx |-> account + 1, account |-> account + 1]

PipeIdle ==
  [pc |-> "idle", method |-> "", accountData |-> Null, txForSim |-> Null,
   preparedTx |-> Null, sim |-> "", signed |-> "", sent |-> "", log |-> <<>>,
   attempt |-> 0, outcome |-> ""]

PipeThrow(c, msg) == [c EXCEPT !.pc = "done", !.outcome = msg]

\* invoke entered: server.getAccount(src) requested
pipeStart(method) ==
  /\ calc[1].pc = "idle"
  /\ calc' = Some([calc[1] EXCEPT !.pc = "getAccount", !.method = method,
                                  !.log = <<"getAccount">>])

\* the account answered: account = new Account(id, sequence), txForSim built
\* from it, rawSim requested
pipeAccount(ok, seq) ==
  /\ calc[1].pc = "getAccount"
  /\ calc' = Some(
       IF ~ok THEN PipeThrow(calc[1], "network error")
       ELSE LET account == seq
            IN [calc[1] EXCEPT !.pc = "rawSim", !.accountData = Some(seq),
                               !.txForSim = Some(Build(account).tx),
                               !.log = @ \o <<"build", "simulate">>])

\* variant: a simulation error is not tested
pipeSimulate_IgnoresError(sim) ==
  /\ calc[1].pc = "rawSim"
  /\ calc' = Some(
       LET c == [calc[1] EXCEPT !.sim = sim]
       IN CASE sim = "threw" -> PipeThrow(c, "network error")
            [] sim = "noresults" -> PipeThrow(c, "No simulation results")
            [] OTHER ->
                 [c EXCEPT !.pc = "sign",
                           !.preparedTx = Some(Build(c.accountData[1]).tx),
                           !.log = @ \o <<"assemble", "sign">>])

\* variant: the second transaction is built on the Account object the first
\* build advanced
pipeSimulate_ReusesAccount(sim) ==
  /\ calc[1].pc = "rawSim"
  /\ calc' = Some(
       LET c == [calc[1] EXCEPT !.sim = sim]
       IN CASE sim = "threw" -> PipeThrow(c, "network error")
            [] sim = "error" -> PipeThrow(c, "simulation error")
            [] sim = "noresults" -> PipeThrow(c, "No simulation results")
            [] OTHER ->
                 [c EXCEPT !.pc = "sign",
                           !.preparedTx =
                              Some(Build(Build(c.accountData[1]).account).tx),
                           !.log = @ \o <<"assemble", "sign">>])

\* the simulation answered: the two tests on it, account2 = new Account(id,
\* sequence) from the account fetched, txForAssemble built from it,
\* assembleTransaction, sign(preparedTx) requested
pipeSimulate(sim) ==
  /\ calc[1].pc = "rawSim"
  /\ calc' = Some(
       LET c == [calc[1] EXCEPT !.sim = sim]
       IN CASE sim = "threw" -> PipeThrow(c, "network error")
            [] sim = "error" -> PipeThrow(c, "simulation error")
            [] sim = "noresults" -> PipeThrow(c, "No simulation results")
            [] OTHER ->
                 LET account2 == c.accountData[1]
                 IN [c EXCEPT !.pc = "sign",
                              !.preparedTx = Some(Build(account2).tx),
                              !.log = @ \o <<"assemble", "sign">>])

\* the wallet answered: server.sendTransaction(signed) requested
pipeSign(ok) ==
  /\ calc[1].pc = "sign"
  /\ calc' = Some(
       IF ~ok THEN PipeThrow([calc[1] EXCEPT !.signed = "rejected"],
                             "signing rejected")
       ELSE [calc[1] EXCEPT !.pc = "send", !.signed = "ok",
                            !.log = @ \o <<"send">>])

\* the submission answered: the tests on sent.status
pipeSend(status) ==
  /\ calc[1].pc = "send"
  /\ calc' = Some(
       LET c == [calc[1] EXCEPT !.sent = status]
       IN CASE status = "threw" -> PipeThrow(c, "network error")
            [] status = "ERROR_txTooLate" -> PipeThrow(c, "Transaction expired")
            [] status = "ERROR" -> PipeThrow(c, "Send failed")
            [] status = "DUPLICATE" -> PipeThrow(c, "Already submitted")
            [] status = "TRY_AGAIN_LATER" -> PipeThrow(c, "Network busy")
            [] OTHER -> [c EXCEPT !.pc = "loop", !.attempt = 0])

\* the delay of one round passed: server.getTransaction(sent.hash) requested
pipeDelay ==
  /\ calc[1].pc = "loop"
  /\ LoopContinues(calc[1].attempt)
  /\ calc' = Some([calc[1] EXCEPT !.pc = "query",
                                  !.log = @ \o <<"getTransaction">>])

\* the status answered: the two tests on it
pipeGetTransaction(status) ==
  /\ calc[1].pc = "query"
  /\ calc' = Some(
       CASE status = "threw" -> PipeThrow(calc[1], "network error")
         [] status = "SUCCESS" ->
              [calc[1] EXCEPT !.pc = "done", !.outcome = "returned"]
         [] status = "FAILED" ->
              PipeThrow(calc[1], "Transaction failed on-chain")
         [] OTHER -> [calc[1] EXCEPT !.pc = "loop", !.attempt = @ + 1])

\* the loop ran out
pipeTimeout ==
  /\ calc[1].pc = "loop"
  /\ ~LoopContinues(calc[1].attempt)
  /\ calc' = Some(PipeThrow(calc[1], "Confirmation timeout"))

InitPipeline ==
  /\ remote = RemotePlaying(Me, Opp)
  /\ address = Me
  /\ SyncIdle
  /\ secret = Null
  /\ PlayIdle
  /\ InvokeIdle
  /\ TurnIdle
  /\ poller = Null /\ turnTimer = Null /\ placement = Null
  /\ storage = Null /\ wire = Null
  /\ calc = Some(PipeIdle)

NextPipeline ==
  \/ \E method \in Methods : pipeStart(method)
  \/ \E ok \in BOOLEAN, seq \in SeqNumbers : pipeAccount(ok, seq)
  \/ \E sim \in SimResults : pipeSimulate(sim)
  \/ \E ok \in BOOLEAN : pipeSign(ok)
  \/ \E status \in SendStatuses : pipeSend(status)
  \/ pipeDelay
  \/ \E status \in TxStatuses : pipeGetTransaction(status)
  \/ pipeTimeout

SpecPipeline ==
  InitPipeline /\ [][NextPipeline /\ UNCHANGED <<clientVars, invokeVars,
                       turnFlags, poller, turnTimer, placement, storage,
                       wire>>]_vars

\* the place of a request in the order build, simulate, assemble, sign,
\* submit, confirm (the account is fetched before the build)
StageRank(name) ==
  CASE name = "getAccount" -> 0
    [] name = "build" -> 1
    [] name = "simulate" -> 2
    [] name = "assemble" -> 3
    [] name = "sign" -> 4
    [] name = "send" -> 5
    [] OTHER -> 6

Requested(name) == \E i \in DOMAIN calc[1].log : calc[1].log[i] = name

\* C31: an invocation passes through its stages in the order build,
\* simulate, assemble, sign, submit, confirm; the wallet is asked to sign
\* only after a simulation that was not rejected, a transaction is submitted
\* only after it was signed, its status is queried only after the submission
\* was accepted, and a rejected simulation is followed by no signing request
\* and no submission.
C31_StageOrder ==
  LET log == calc[1].log
  IN /\ \A i, j \in DOMAIN log :
          i < j => \/ StageRank(log[i]) < StageRank(log[j])
                   \/ log[i] = "getTransaction" /\ log[j] = "getTransaction"
     /\ \A j \in DOMAIN log :
          \A r \in 0..(StageRank(log[j]) - 1) :
             \E i \in 1..(j - 1) : StageRank(log[i]) = r
     /\ Requested("sign") => calc[1].sim = "ok"
     /\ Requested("send") => calc[1].signed = "ok"
     /\ Requested("getTransaction") => calc[1].sent = "PENDING"
     /\ calc[1].sim \in {"threw", "error", "noresults"}
          => ~Requested("sign") /\ ~Requested("send")

C31_Witness ==
  /\ calc # Null
  /\ calc[1].pc = "done"
  /\ calc[1].outcome = "returned"
  /\ Requested("getTransaction")

\* C32: within one invocation the caller's account is fetched exactly once,
\* and the transaction simulated and the transaction assembled, signed and
\* submitted are both built from the sequence number fetched.
C32_AccountFetchedOnce ==
  LET c == calc[1]
  IN /\ c.pc # "idle" =>
          Cardinality({i \in DOMAIN c.log : c.log[i] = "getAccount"}) = 1
     /\ c.txForSim # Null => c.txForSim = Some(c.accountData[1] + 1)
     /\ c.preparedTx # Null => /\ c.preparedTx = Some(c.accountData[1] + 1)
                               /\ c.preparedTx = c.txForSim

C32_Witness ==
  /\ calc # Null
  /\ calc[1].outcome = "returned"
  /\ calc[1].accountData = Some(MaxSeq)
  /\ calc[1].preparedTx = Some(MaxSeq + 1)

\* =========================================================================
\* SpecConfirm: the placement editor of CommitPhase with its confirm button:
\* clicks on cells, and handleConfirm with its two awaits.  The board is
\* interactive and the button enabled only while status is 'placing'.
\* =========================================================================

NumClickCells == 5

\* the cells clicked: the first cells of the board, row by row
ClickCells ==
  {[row |-> (k - 1) \div BoardSide, col |-> (k - 1) % BoardSide] :
     k \in 1..NumClickCells}

ConfirmMounted ==
  [board |-> emptyBoard, status |-> "placing", error |-> FALSE,
   confirmed |-> Null, saved |-> Null, hashed |-> Null]

\* handleCellClick on the interactive board
confirmCellClick(row, col) ==
  /\ calc[1].status = "placing"
  /\ calc' = Some([calc[1] EXCEPT
                     !.board = toggleCell(calc[1].board, row, col).next])

\* variant: the ship count is not tested
handleConfirmEntry_NoCount ==
  /\ calc[1].status = "placing"
  /\ calc' = Some([calc[1] EXCEPT !.error = FALSE, !.status = "hashing",
                                  !.confirmed = Some(calc[1].board)])

\* handleConfirm up to the await of computeBoardHash(board, salt)
handleConfirmEntry ==
  /\ calc[1].status = "placing"
  /\ IF countShips(calc[1].board) # TOTAL_SHIPS
       THEN UNCHANGED calc
       ELSE calc' = Some([calc[1] EXCEPT !.error = FALSE,
                                         !.status = "hashing",
                                         !.confirmed = Some(calc[1].board)])

\* the hash arrived: savePlayerSecret(contractId, playerAddress, board,
\* salt), then commitBoard(playerAddress, boardHash, signTx) is invoked; or
\* the engine failed: catch
handleConfirmHashed(ok) ==
  /\ calc[1].status = "hashing"
  /\ calc' = Some(
       IF ok THEN [calc[1] EXCEPT !.saved = calc[1].confirmed,
                                  !.hashed = calc[1].confirmed,
                                  !.status = "committing"]
       ELSE [calc[1] EXCEPT !.error = TRUE, !.status = "placing"])

\* commitBoard returned, or raised: catch
handleConfirmSettled(ok) ==
  /\ calc[1].status = "committing"
  /\ calc' = Some(
       IF ok THEN [calc[1] EXCEPT !.status = "done"]
       ELSE [calc[1] EXCEPT !.error = TRUE, !.status = "placing"])

InitConfirm ==
  /\ ClientIdle
  /\ InvokeIdle
  /\ TurnIdle
  /\ poller = Null /\ turnTimer = Null /\ placement = Null
  /\ storage = Null /\ wire = Null
  /\ calc = Some(ConfirmMounted)

NextConfirm ==
  \/ \E c \in ClickCells : confirmCellClick(c.row, c.col)
  \/ handleConfirmEntry
  \/ \E ok \in BOOLEAN : handleConfirmHashed(ok)
  \/ \E ok \in BOOLEAN : handleConfirmSettled(ok)

SpecConfirm ==
  InitConfirm /\ [][NextConfirm /\ UNCHANGED <<clientVars, invokeVars,
                      turnFlags, poller, turnTimer, placement, storage,
                      wire>>]_vars

\* C33: a secret is saved and commitBoard is invoked only for a board that
\* holds exactly TOTAL_SHIPS ship cells at the moment of confirmation, and
\* confirming with any other ship count changes nothing.
C33_ConfirmNeedsThreeShips ==
  [][LET c == calc[1]
         d == calc'[1]
     IN /\ (d.saved # c.saved \/ d.hashed # c.hashed
                                \/ d.status = "committing")
             => /\ c.status = "hashing"
                /\ d.saved = c.confirmed /\ d.hashed = c.confirmed
                /\ c.confirmed # Null
                /\ countShips(c.confirmed[1]) = TOTAL_SHIPS
        /\ d.confirmed # c.confirmed
             => /\ d.confirmed = Some(c.board)
                /\ countShips(c.board) = TOTAL_SHIPS
        /\ (countShips(c.board) # TOTAL_SHIPS /\ d.board = c.board)
             => d = c]_vars

C33_Witness ==
  /\ calc # Null
  /\ calc[1].status = "done"
  /\ calc[1].saved # Null
  /\ countShips(calc[1].saved[1]) = TOTAL_SHIPS
  /\ calc[1].saved = Some(calc[1].board)

\* =========================================================================
\* SpecParse: parseGameState over encoded snapshots in which one entry of
\* the map is damaged.  calc holds the node, the values it encodes, the key
\* of the damaged entry and the kind of damage, and the result.
\* =========================================================================

\* the entries in the order the contract's struct lists them
StateKeyOrder ==
  <<"player1", "player2", "board_hash_p1", "board_hash_p2", "hits_on_p1",
    "hits_on_p2", "shots_fired_p1", "shots_fired_p2", "turn", "phase",
    "pending_shot_x", "pending_shot_y", "pending_shooter", "winner",
    "has_winner", "p1_committed", "p2_committed", "p1_joined", "p2_joined",
    "session_id">>

AddressNode(id) ==
  ScVal("scvAddress", 0, FALSE, <<>>, [kind |-> "account", id |-> id])
U32Node(v) == ScVal("scvU32", v, FALSE, <<>>, NoScAddress)
BoolNode(v) == ScVal("scvBool", 0, v, <<>>, NoScAddress)
BytesNode(v) == ScVal("scvBytes", 0, FALSE, v, NoScAddress)
VoidNode == ScVal("scvVoid", 0, FALSE, <<>>, NoScAddress)

\* two snapshots as the contract encodes them
SampleNodes ==
  <<[player1 |-> AddressNode(1), player2 |-> AddressNode(2),
     board_hash_p1 |-> BytesNode(<<10, 255>>),
     board_hash_p2 |-> BytesNode(<<1, 32>>),
     hits_on_p1 |-> U32Node(1), hits_on_p2 |-> U32Node(2),
     shots_fired_p1 |-> U32Node(3), shots_fired_p2 |-> U32Node(4),
     turn |-> AddressNode(1),
     phase |-> EnumNode("scvVec", "", <<EnumItem("scvSymbol", "Playing")>>),
     pending_shot_x |-> U32Node(4), pending_shot_y |-> U32Node(0),
     pending_shooter |-> AddressNode(1), winner |-> AddressNode(2),
     has_winner |-> BoolNode(TRUE), p1_committed |-> BoolNode(TRUE),
     p2_committed |-> BoolNode(TRUE), p1_joined |-> BoolNode(TRUE),
     p2_joined |-> BoolNode(TRUE), session_id |-> U32Node(7)],
    [player1 |-> AddressNode(2), player2 |-> AddressNode(1),
     board_hash_p1 |-> BytesNode(<<0>>),
     board_hash_p2 |-> BytesNode(<<171>>),
     hits_on_p1 |-> U32Node(3), hits_on_p2 |-> U32Node(1),
     shots_fired_p1 |-> U32Node(5), shots_fired_p2 |-> U32Node(5),
     turn |-> AddressNode(2),
     phase |-> EnumNode("scvSymbol", "Finished", <<>>),
     pending_shot_x |-> U32Node(0), pending_shot_y |-> U32Node(2),
     pending_shooter |-> AddressNode(2), winner |-> AddressNode(1),
     has_winner |-> BoolNode(TRUE), p1_committed |-> BoolNode(TRUE),
     p2_committed |-> BoolNode(TRUE), p1_joined |-> BoolNode(TRUE),
     p2_joined |-> BoolNode(TRUE), session_id |-> U32Node(1)]>>

\* the values the two snapshots encode
SampleValues ==
  <<[player1 |-> "GME", player2 |-> "GOPP",
     board_hash_p1 |-> Some(<<0, 10, 15, 15>>),
     board_hash_p2 |-> Some(<<0, 1, 2, 0>>),
     hits_on_p1 |-> 1, hits_on_p2 |-> 2,
     shots_fired_p1 |-> 3, shots_fired_p2 |-> 4,
     turn |-> "GME", phase |-> "Playing",
     pending_shot_x |-> 4, pending_shot_y |-> 0,
     pending_shooter |-> "GME", winner |-> "GOPP",
     has_winner |-> TRUE, p1_committed |-> TRUE, p2_committed |-> TRUE,
     p1_joined |-> TRUE, p2_joined |-> TRUE, session_id |-> 7],
    [player1 |-> "GOPP", player2 |-> "GME",
     board_hash_p1 |-> Some(<<0, 0>>),
     board_hash_p2 |-> Some(<<10, 11>>),
     hits_on_p1 |-> 3, hits_on_p2 |-> 1,
     shots_fired_p1 |-> 5, shots_fired_p2 |-> 5,
     turn |-> "GOPP", phase |-> "Finished",
     pending_shot_x |-> 0, pending_shot_y |-> 2,
     pending_shooter |-> "GOPP", winner |-> "GME",
     has_winner |-> TRUE, p1_committed |-> TRUE, p2_committed |-> TRUE,
     p1_joined |-> TRUE, p2_joined |-> TRUE, session_id |-> 1]>>

DamageKinds ==
  {"none", "missing", "wrongType", "switchThrows", "unwrapThrows", "badKey",
   "keyThrows", "notMap"}

\* the entry of key k of snapshot nodes, keyed with tag ktag, damaged as told
DamagedEntry(nodes, k, ktag, kind) ==
  LET e == MapEntry(ktag, k, nodes[k])
  IN CASE kind = "wrongType" -> [e EXCEPT !.val = VoidNode]
       [] kind = "switchThrows" -> [e EXCEPT !.val.switchThrows = TRUE]
       [] kind = "unwrapThrows" -> [e EXCEPT !.val.unwrapThrows = TRUE]
       [] kind = "badKey" -> [e EXCEPT !.ktag = "scvU32"]
       [] kind = "keyThrows" -> [e EXCEPT !.keyThrows = TRUE]
       [] OTHER -> e

\* the node get_state returns for snapshot nodes with the entry of key
\* damaged damaged as told
EncodedState(nodes, ktag, damaged, kind) ==
  LET order == IF kind = "missing"
                 THEN SelectSeq(StateKeyOrder, LAMBDA k : k # damaged)
                 ELSE StateKeyOrder
  IN [tag |-> IF kind = "notMap" THEN "scvVec" ELSE "scvMap",
      switchThrows |-> FALSE,
      entries |-> [i \in DOMAIN order |->
                     IF order[i] = damaged
                       THEN DamagedEntry(nodes, order[i], ktag, kind)
                       ELSE MapEntry(ktag, order[i], nodes[order[i]])]]

parseCall ==
  /\ calc[1].out = Null
  /\ calc' = Some([calc[1] EXCEPT !.out = Some(parseGameState(calc[1].retval))])

InitParse ==
  /\ ClientIdle
  /\ InvokeIdle
  /\ TurnIdle
  /\ calc \in
       {Some([retval |-> EncodedState(SampleNodes[s], ktag, k, kind),
              values |-> SampleValues[s], damaged |-> k, kind |-> kind,
              out |-> Null]) :
          s \in DOMAIN SampleNodes, ktag \in {"scvSymbol", "scvString"},
          k \in StateKeys, kind \in DamageKinds}
  /\ poller = Null /\ turnTimer = Null /\ placement = Null
  /\ storage = Null /\ wire = Null

NextParse == parseCall

SpecParse ==
  InitParse /\ [][NextParse /\ UNCHANGED <<clientVars, invokeVars, turnFlags,
                                           poller, turnTimer, placement,
                                           storage, wire>>]_vars

\* the default of a field: the empty string for addresses and hashes (no
\* digits), 0 for counters, false for booleans, NO_SHOT for the pending shot
\* coordinates, WaitingForPlayers for the phase
FieldDefault ==
  [player1 |-> "", player2 |-> "", board_hash_p1 |-> Null,
   board_hash_p2 |-> Null, hits_on_p1 |-> 0, hits_on_p2 |-> 0,
   shots_fired_p1 |-> 0, shots_fired_p2 |-> 0, turn |-> "",
   phase |-> "WaitingForPlayers", pending_shot_x |-> NO_SHOT,
   pending_shot_y |-> NO_SHOT, pending_shooter |-> "", winner |-> "",
   has_winner |-> FALSE, p1_committed |-> FALSE, p2_committed |-> FALSE,
   p1_joined |-> FALSE, p2_joined |-> FALSE, session_id |-> 0]

BOARD_SIZE == 5

PendingShotPaired(g) ==
  \/ g.pending_shot_x \in 0..(BOARD_SIZE - 1) /\ g.pending_shot_y \in 0..(BOARD_SIZE - 1)
  \/ g.pending_shot_x = NO_SHOT /\ g.pending_shot_y = NO_SHOT

\* a snapshot decoded from an undamaged map has its pending shot paired
PairedWhenIntact ==
  (calc[1].out # Null /\ calc[1].kind = "none")
    => PendingShotPaired(calc[1].out[1])

\* C35: in every snapshot parseGameState hands out, pending_shot_x and
\* pending_shot_y are both board coordinates or both NO_SHOT, so that the
\* pending-shot test on x agrees with the same test on y.
C35_PendingShotBothOrNeither ==
  calc[1].out # Null =>
    /\ PendingShotPaired(calc[1].out[1])
    /\ (calc[1].out[1].pending_shot_x # NO_SHOT)
         = (calc[1].out[1].pending_shot_y # NO_SHOT)

\* =========================================================================
\* SpecRespondLive: the play screen of a connected player whose secret is
\* stored, without wallet changes.  The poll timer fires, every poll is
\* answered and settled, and every invocation in flight takes its next
\* step; the opponent and the user act or not.
\* =========================================================================

InitRespond ==
  /\ remote \in {RemotePlaying(Me, Opp), RemotePlaying(Opp, Me)}
  /\ address = Me
  /\ SyncIdle
  /\ secret = SavedItem
  /\ PlayIdle
  /\ InvokeIdle
  /\ TurnIdle
  /\ AuxIdle

\* the timer of useGameState and the answers to its polls
RespondPolling ==
  \/ NoPollOutstanding /\ startPolling
  \/ NoPollOutstanding /\ timerTick
  \/ \E i \in DOMAIN polls : pollAnswer(i)
  \/ \E i \in DOMAIN polls : refreshSettle(i) /\ Render(gameState', address)

\* the awaited calls of handleFire and of the auto-respond effect
RespondSettling ==
  \/ \E i \in DOMAIN ops : fireOk(i)
  \/ \E i \in DOMAIN ops : fireFail(i)
  \/ \E i \in DOMAIN ops : proofDone(i)
  \/ \E i \in DOMAIN ops : respondOk(i)
  \/ \E i \in DOMAIN ops : respondFail(i)
  \/ \E i \in DOMAIN ops : txLand(i)

NextRespond ==
  \/ RespondPolling
  \/ RespondSettling
  \/ \E c \in Cells : handleCellSelect(c.y, c.x)
  \/ handleFire
  \/ \E c \in Cells : remoteFire(Opp, c.x, c.y)
  \/ remoteRespond(Opp)

SpecRespondLive ==
  /\ InitRespond
  /\ [][NextRespond /\ UNCHANGED <<invokeVars, turnFlags, auxVars>>]_vars
  /\ WF_vars(RespondPolling /\ UNCHANGED <<invokeVars, turnFlags, auxVars>>)
  /\ WF_vars(RespondSettling /\ UNCHANGED <<invokeVars, turnFlags, auxVars>>)

\* the snapshot shown asks for a response, the secret is stored and nothing
\* of this player is in flight
RespondDue ==
  /\ deriveScreen(gameState, address) = "play"
  /\ needToRespond(gameState[1], address)
  /\ loadPlayerSecret(secret) # Null
  /\ ops = <<>> /\ ~txPending /\ ~generating

RespondStarted == \E i \in DOMAIN ops : ops[i].kind = "respond"

\* C36: whenever needToRespond holds, the secret is present and no pipeline
\* call of this player is in flight, a response attempt is eventually
\* started without any user action, also when needToRespond became true
\* while another transaction was pending and after an earlier attempt for
\* the same pending shot failed.
C36_RespondEventuallyStarts == RespondDue ~> RespondStarted

\* =========================================================================
\* SpecRetry: CommitPhase confirming a placed board, commitBoard going
\* through the pipeline, and the ledger.  A transaction that was submitted
\* is applied by the ledger whether or not the client is still waiting for
\* it.  calc holds the status of CommitPhase, the salts drawn so far, the
\* secret stored under (contractId, playerAddress), the position of the
\* pipeline, the commitments submitted and not yet applied, the commitment
\* the ledger holds for the local player, and whether the snapshot shown has
\* the player committed.
\* =========================================================================

MaxCommitAttempts == 3

\* computeBoardHash(board, salt): one commitment per board and salt
CommitmentOf(sec) == <<"poseidon2", sec.board, sec.salt>>

RetryMounted ==
  [status |-> "placing", salts |-> 0, stored |-> Null, pc |-> "idle",
   hash |-> Null, submitted |-> {}, onChain |-> Null, myCommitted |-> FALSE,
   error |-> FALSE]

\* handleConfirm on a board of TOTAL_SHIPS ships: generateSalt,
\* computeBoardHash, savePlayerSecret, then commitBoard enters the pipeline
retryConfirm ==
  /\ calc[1].status = "placing" /\ ~calc[1].myCommitted
  /\ calc[1].salts < MaxCommitAttempts
  /\ LET salt == calc[1].salts + 1
         sec == [board |-> StoredSecret.board, salt |-> salt]
     IN calc' = Some([calc[1] EXCEPT
                        !.salts = salt, !.error = FALSE,
                        !.stored = Some(sec),
                        !.hash = Some(CommitmentOf(sec)),
                        !.status = "committing", !.pc = "simulate"])

\* catch of handleConfirm
RetryCatch(c) == [c EXCEPT !.status = "placing", !.pc = "idle", !.error = TRUE]

\* the simulation: the contract rejects a second commitment of a player
retrySimulate(reachable) ==
  /\ calc[1].pc = "simulate"
  /\ calc' = Some(IF reachable /\ calc[1].onChain = Null
                    THEN [calc[1] EXCEPT !.pc = "send"]
                    ELSE RetryCatch(calc[1]))

\* signing and sendTransaction
retrySend(ok) ==
  /\ calc[1].pc = "send"
  /\ calc' = Some(IF ok THEN [calc[1] EXCEPT !.pc = "confirm",
                                            !.submitted = @ \cup {calc[1].hash[1]}]
                  ELSE RetryCatch(calc[1]))

\* the ledger applies a submitted transaction: commit_board sets the
\* commitment of a player who has none
ledgerApply(h) ==
  /\ h \in calc[1].submitted
  /\ calc' = Some([calc[1] EXCEPT
                     !.submitted = @ \ {h},
                     !.onChain = IF @ = Null THEN Some(h) ELSE @])

\* the confirmation loop ends: SUCCESS for a transaction applied, or FAILED,
\* a failing query, or the attempts running out
retryConfirmed(outcome) ==
  /\ calc[1].pc = "confirm"
  /\ outcome = "SUCCESS" => calc[1].onChain = calc[1].hash
  /\ outcome = "FAILED" => /\ calc[1].hash[1] \notin calc[1].submitted
                           /\ calc[1].onChain # calc[1].hash
  /\ calc' = Some(IF outcome = "SUCCESS"
                    THEN [calc[1] EXCEPT !.status = "done", !.pc = "idle"]
                    ELSE RetryCatch(calc[1]))

\* a poll shows the ledger's state: CommitPhase renders the committed view
\* once the player's commitment is there
retryPoll ==
  /\ calc[1].myCommitted # (calc[1].onChain # Null)
  /\ calc' = Some([calc[1] EXCEPT !.myCommitted = (calc[1].onChain # Null)])

InitRetry ==
  /\ ClientIdle
  /\ InvokeIdle
  /\ TurnIdle
  /\ calc = Some(RetryMounted)
  /\ poller = Null /\ turnTimer = Null /\ placement = Null
  /\ storage = Null /\ wire = Null

NextRetry ==
  \/ retryConfirm
  \/ \E reachable \in BOOLEAN : retrySimulate(reachable)
  \/ \E ok \in BOOLEAN : retrySend(ok)
  \/ \E h \in calc[1].submitted : ledgerApply(h)
  \/ \E outcome \in {"SUCCESS", "FAILED", "threw", "timeout"} :
       retryConfirmed(outcome)
  \/ retryPoll

SpecRetry ==
  InitRetry /\ [][NextRetry /\ UNCHANGED <<clientVars, invokeVars, turnFlags,
                                           poller, turnTimer, placement,
                                           storage, wire>>]_vars

\* the stored secret is the one committed when no attempt follows a
\* submission
CommittedOnFirstSubmission ==
  (calc[1].onChain # Null /\ calc[1].salts = 1)
    => /\ calc[1].stored # Null
       /\ CommitmentOf(calc[1].stored[1]) = calc[1].onChain[1]

\* C37: whenever the ledger holds a commitment of the local player that this
\* client submitted, the secret stored under (contractId, playerAddress) is
\* the board and salt whose hash is that commitment, after any sequence of
\* commit attempts.
C37_StoredSecretMatchesCommitment ==
  calc[1].onChain # Null
    => /\ calc[1].stored # Null
       /\ CommitmentOf(calc[1].stored[1]) = calc[1].onChain[1]

HASH_BYTES == 32

\* hexToBytes: strip '0x', pad to 64 digits on the left, read 32 pairs
hexToBytes(hex) ==
  LET clean == hex.digits
      padded == padStart(clean, 2 * HASH_BYTES)
  IN [i \in 1..HASH_BYTES |-> 16 * padded[2 * i - 1] + padded[2 * i]]

\* commitBoard up to invokeContract: the bytes handed to the pipeline, or
\* the error raised before it
commitBoard(playerAddress, boardHashHex) ==
  LET hashBytes == hexToBytes(boardHashHex)
  IN IF Len(hashBytes) # HASH_BYTES
       THEN [threw |-> TRUE, msg |-> "Board hash must be 32 bytes", sent |-> Null]
     ELSE IF playerAddress = NoAddr
       THEN [threw |-> TRUE, msg |-> "Player is required", sent |-> Null]
     ELSE [threw |-> FALSE, msg |-> "", sent |-> Some(hashBytes)]

\* the strings studied: from no digit to twice the digits of a hash
HashLengths ==
  {0, 1, 2, 2 * HASH_BYTES - 1, 2 * HASH_BYTES, 2 * HASH_BYTES + 1,
   2 * HASH_BYTES + 2, 4 * HASH_BYTES}

HashStrings ==
  {[prefixed |-> p, digits |-> [i \in 1..n |-> IF i % 2 = 1 THEN a ELSE b]] :
     p \in BOOLEAN, n \in HashLengths, a \in {0, 10, 15}, b \in {1, 15}}

commitBoardCall ==
  /\ calc[1].out = Null
  /\ calc' = Some([calc[1] EXCEPT
                     !.out = Some(commitBoard(calc[1].addr, calc[1].hex))])

InitHash ==
  /\ ClientIdle
  /\ InvokeIdle
  /\ TurnIdle
  /\ calc \in {Some([addr |-> a, hex |-> h, out |-> Null]) :
                 a \in {Me, NoAddr}, h \in HashStrings}
  /\ poller = Null /\ turnTimer = Null /\ placement = Null
  /\ storage = Null /\ wire = Null

NextHash == commitBoardCall

SpecHash ==
  InitHash /\ [][NextHash /\ UNCHANGED <<clientVars, invokeVars, turnFlags,
                                         poller, turnTimer, placement,
                                         storage, wire>>]_vars

\* the bytes a string of an even number of digits encodes
HexBytesOf(digits) ==
  [i \in 1..(Len(digits) \div 2) |-> 16 * digits[2 * i - 1] + digits[2 * i]]

\* a string of exactly 64 digits is sent as the 32 bytes it encodes
WholeHashSent ==
  (/\ calc[1].out # Null /\ calc[1].addr = Me
   /\ Len(calc[1].hex.digits) = 2 * HASH_BYTES)
    => /\ ~calc[1].out[1].threw
       /\ calc[1].out[1].sent = Some(HexBytesOf(calc[1].hex.digits))

\* C39: commitBoard raises 'Board hash must be 32 bytes' and sends no
\* transaction whenever the hash string does not encode exactly 32 bytes.
C39_WrongLengthRejected ==
  (calc[1].out # Null /\ Len(calc[1].hex.digits) # 2 * HASH_BYTES)
    => /\ calc[1].out[1].threw
       /\ calc[1].out[1].msg = "Board hash must be 32 bytes"
       /\ calc[1].out[1].sent = Null

====
